---- MODULE Spec2Model ----
(***************************************************************************)
(* Scarlet Scheduler: the schedule assembly engine of src/app.py           *)
(* (RutgersScheduler.build_schedule and the functions it calls).           *)
(*                                                                         *)
(* Python strings are modelled as sequences of one-character strings, so   *)
(* that strip, upper, startswith, "in" (substring), split, zfill and the   *)
(* regular expression of time_to_minutes are computed, not assumed.        *)
(* Python None is NoDay for a weekday and None (-1) for a minute value;    *)
(* an absent or empty string field is the empty sequence.                  *)
(*                                                                         *)
(* A local variable of the code that is read more than once is bound with  *)
(* The({ body(x) : x \in {value} }), which computes the value once, where  *)
(* a LET would compute it again at every use.                              *)
(***************************************************************************)
EXTENDS Integers, Sequences, FiniteSets, TLC

\* the element of a one-element set
The(S) == CHOOSE r \in S : TRUE

\* ------------------------------------------------------------------------
\* Bounds of the model
\* ------------------------------------------------------------------------

\* longest request list (course_keys) handed to build_schedule
MaxReq == 3
\* most meetings of a section handed to check_conflict on its own
MaxMeetings == 2
\* longest request list of a build_schedule call that is made twice
MaxRerunReq == 2
\* largest hour written in a time string handed to time_to_minutes
MaxHour == 25
\* longest course history handed to get_available_courses_by_prereqs
MaxTaken == 3
\* most courses named in one chat message
MaxChatReq == 3

\* ------------------------------------------------------------------------
\* Program constants
\* ------------------------------------------------------------------------
TARGET_CREDITS == 15
MAX_CREDITS == 18
\* attempt budget of the auto-fill loop
MAX_ATTEMPTS == 80

None == -1
NoDay == "None"

\* ------------------------------------------------------------------------
\* String helpers (str methods of Python)
\* ------------------------------------------------------------------------
LowerChars == <<"a","b","c","d","e","f","g","h","i","j","k","l","m",
                "n","o","p","q","r","s","t","u","v","w","x","y","z">>
UpperChars == <<"A","B","C","D","E","F","G","H","I","J","K","L","M",
                "N","O","P","Q","R","S","T","U","V","W","X","Y","Z">>
DigitChars == <<"0","1","2","3","4","5","6","7","8","9">>

UpperChar(c) ==
    IF \E i \in 1..26 : LowerChars[i] = c
    THEN UpperChars[CHOOSE i \in 1..26 : LowerChars[i] = c]
    ELSE c

\* str.upper()
Upper(s) == [i \in 1..Len(s) |-> UpperChar(s[i])]

\* str.strip(): from the first to the last character that is not a space
Strip(s) ==
    The({ IF ns = {} THEN <<>>
          ELSE SubSeq(s, CHOOSE i \in ns : \A j \in ns : i <= j,
                         CHOOSE i \in ns : \A j \in ns : j <= i)
          : ns \in {{i \in 1..Len(s) : s[i] # " "}} })

\* a.startswith(b)
StartsWith(a, b) == Len(b) <= Len(a) /\ SubSeq(a, 1, Len(b)) = b

\* sub in text
Contains(sub, text) ==
    \E i \in 0..(Len(text) - Len(sub)) : SubSeq(text, i + 1, i + Len(sub)) = sub

IsDigit(c) == \E i \in 1..10 : DigitChars[i] = c
DigitVal(c) == (CHOOSE i \in 1..10 : DigitChars[i] = c) - 1

\* a or b, for two string values
OrElse(a, b) == IF a # <<>> THEN a ELSE b

\* str.zfill(n), for strings without a sign
ZFill(s, n) ==
    IF Len(s) >= n THEN s ELSE [i \in 1..(n - Len(s)) |-> "0"] \o s

\* elements of a sequence
Range(q) == {q[i] : i \in 1..Len(q)}

\* positions of ':' in s
ColonPositions(s) == {i \in 1..Len(s) : s[i] = ":"}

\* ------------------------------------------------------------------------
\* Time model
\* ------------------------------------------------------------------------

\* DAY_MAP, in the insertion order the loop of normalize_day visits
DAY_MAP ==
    << << <<"M">>, "Monday" >>,
       << <<"T">>, "Tuesday" >>,
       << <<"W">>, "Wednesday" >>,
       << <<"T","H">>, "Thursday" >>,
       << <<"R">>, "Thursday" >>,
       << <<"F">>, "Friday" >>,
       << <<"M","O","N","D","A","Y">>, "Monday" >>,
       << <<"T","U","E","S","D","A","Y">>, "Tuesday" >>,
       << <<"W","E","D","N","E","S","D","A","Y">>, "Wednesday" >>,
       << <<"T","H","U","R","S","D","A","Y">>, "Thursday" >>,
       << <<"F","R","I","D","A","Y">>, "Friday">> >>

\* normalize_day once d = day_code.strip().upper() is computed
DayOfCode(d) ==
    LET exact == {i \in 1..Len(DAY_MAP) : DAY_MAP[i][1] = d}
        loose == {i \in 1..Len(DAY_MAP) :
                     StartsWith(d, DAY_MAP[i][1]) \/ StartsWith(DAY_MAP[i][1], d)}
        first(S) == CHOOSE i \in S : \A j \in S : i <= j
    IN  IF exact # {} THEN DAY_MAP[first(exact)][2]
        ELSE IF loose # {} THEN DAY_MAP[first(loose)][2]
        ELSE NoDay

normalize_day(day_code) ==
    IF day_code = <<>> THEN NoDay
    ELSE The({ DayOfCode(d) : d \in {Upper(Strip(day_code))} })

\* character of s at position i, or "" past the end
At(s, i) == IF i >= 1 /\ i <= Len(s) THEN s[i] ELSE ""

RECURSIVE SkipSpaces(_, _)
SkipSpaces(s, p) == IF At(s, p) = " " THEN SkipSpaces(s, p + 1) ELSE p

\* an hour adjustment without the branch for 12 AM
AdjustHour_noon(h, period) ==
    IF period = "PM" /\ h # 12 THEN h + 12
    ELSE IF period = "" /\ h < 8 THEN h + 12
    ELSE h

\* the if/elif chain of time_to_minutes on the hour h of the match
AdjustHour(h, period) ==
    IF period = "PM" /\ h # 12 THEN h + 12
    ELSE IF period = "AM" /\ h = 12 THEN 0
    ELSE IF period = "" /\ h < 8 THEN h + 12
    ELSE h

\* time_to_minutes once u = t.strip().upper() is computed: re.match and
\* the arithmetic on its groups
MinutesOf(u) ==
    LET \* (\d{1,2}):  greedy, two digits first
        hlen == IF IsDigit(At(u, 1)) /\ IsDigit(At(u, 2)) /\ At(u, 3) = ":" THEN 2
                ELSE IF IsDigit(At(u, 1)) /\ At(u, 2) = ":" THEN 1
                ELSE 0
        matched == hlen > 0 /\ IsDigit(At(u, hlen + 2)) /\ IsDigit(At(u, hlen + 3))
        h0 == IF hlen = 2 THEN 10 * DigitVal(u[1]) + DigitVal(u[2])
              ELSE DigitVal(u[1])
        m == 10 * DigitVal(u[hlen + 2]) + DigitVal(u[hlen + 3])
        \* (?::\d{2})?
        p1 == hlen + 4
        p2 == IF At(u, p1) = ":" /\ IsDigit(At(u, p1 + 1)) /\ IsDigit(At(u, p1 + 2))
              THEN p1 + 3 ELSE p1
        \* \s*(AM|PM)?
        p3 == SkipSpaces(u, p2)
        period == IF At(u, p3) = "A" /\ At(u, p3 + 1) = "M" THEN "AM"
                  ELSE IF At(u, p3) = "P" /\ At(u, p3 + 1) = "M" THEN "PM"
                  ELSE ""
        h == AdjustHour(h0, period)
    IN  IF u = <<>> THEN None
        ELSE IF ~matched THEN None
        ELSE IF 0 <= h /\ h < 24 /\ 0 <= m /\ m < 60 THEN h * 60 + m
        ELSE None

time_to_minutes(t) ==
    IF t = <<>> THEN None
    ELSE The({ MinutesOf(u) : u \in {Upper(Strip(t))} })

\* ------------------------------------------------------------------------
\* Catalog snapshot (the file load_data reads into self.data['courses']): a
\* small catalog in the format data_converter.convert_section writes (full
\* weekday names, 12-hour and 24-hour time strings), and one meeting,
\* ThMidnight, stored with a day code and 12-hour strings only
\* ------------------------------------------------------------------------
K111 == <<"1","9","8",":","1","1","1">>
K112 == <<"1","9","8",":","1","1","2">>
K098 == <<"0","9","8",":","1","0","1">>
K830 == <<"8","3","0",":","1","0","1">>
K700 == <<"7","0","0",":","1","0","1">>
\* request spellings that are not catalog keys
K98 == <<"9","8",":","1","0","1">>
K999 == <<"9","9","9",":","9","9","9">>

NoCourse == <<>>

\* insertion order of the courses mapping
CourseOrder == <<K111, K112, K098, K830, K700>>

CourseKeys == {CourseOrder[i] : i \in 1..Len(CourseOrder)}

Mon1000 == [day |-> <<"M","o","n","d","a","y">>, start_time_24h |-> <<"1","0",":","0","0">>, start_time |-> <<"1","0",":","0","0"," ","A","M">>, end_time_24h |-> <<"1","1",":","2","0">>, end_time |-> <<"1","1",":","2","0"," ","A","M">>]
Thu1000 == [day |-> <<"T","h","u","r","s","d","a","y">>, start_time_24h |-> <<"1","0",":","0","0">>, start_time |-> <<"1","0",":","0","0"," ","A","M">>, end_time_24h |-> <<"1","1",":","2","0">>, end_time |-> <<"1","1",":","2","0"," ","A","M">>]
Wed1000 == [day |-> <<"W","e","d","n","e","s","d","a","y">>, start_time_24h |-> <<"1","0",":","0","0">>, start_time |-> <<"1","0",":","0","0"," ","A","M">>, end_time_24h |-> <<"1","1",":","2","0">>, end_time |-> <<"1","1",":","2","0"," ","A","M">>]
Tue1000 == [day |-> <<"T","u","e","s","d","a","y">>, start_time_24h |-> <<"1","0",":","0","0">>, start_time |-> <<"1","0",":","0","0"," ","A","M">>, end_time_24h |-> <<"1","1",":","2","0">>, end_time |-> <<"1","1",":","2","0"," ","A","M">>]
Mon1050 == [day |-> <<"M","o","n","d","a","y">>, start_time_24h |-> <<"1","0",":","5","0">>, start_time |-> <<"1","0",":","5","0"," ","A","M">>, end_time_24h |-> <<"1","2",":","1","0">>, end_time |-> <<"1","2",":","1","0"," ","P","M">>]
Fri0900 == [day |-> <<"F","r","i","d","a","y">>, start_time_24h |-> <<"0","9",":","0","0">>, start_time |-> <<"9",":","0","0"," ","A","M">>, end_time_24h |-> <<"1","0",":","2","0">>, end_time |-> <<"1","0",":","2","0"," ","A","M">>]
Mon1120 == [day |-> <<"M","o","n","d","a","y">>, start_time_24h |-> <<"1","1",":","2","0">>, start_time |-> <<"1","1",":","2","0"," ","A","M">>, end_time_24h |-> <<"1","2",":","4","0">>, end_time |-> <<"1","2",":","4","0"," ","P","M">>]
ThMidnight == [day |-> <<"T","H">>, start_time_24h |-> <<>>, start_time |-> <<"1","2",":","0","0"," ","A","M">>, end_time_24h |-> <<>>, end_time |-> <<"1","2",":","5","0"," ","A","M">>]

Catalog ==
    (K111 :> [credits |-> 4, prerequisites |-> <<>>, core_codes |-> 0,
              sections |-> << [index |-> "11101", is_open |-> TRUE,
                               meetings |-> <<Mon1000, Thu1000>>],
                              [index |-> "11102", is_open |-> TRUE,
                               meetings |-> <<Wed1000>>] >>])
 @@ (K112 :> [credits |-> 4, prerequisites |-> <<"0","1",":","1","9","8",":","1","1","1"," ","o","r"," ","0","1",":","1","9","8",":","1","0","7">>, core_codes |-> 0,
              sections |-> << [index |-> "11201", is_open |-> FALSE,
                               meetings |-> <<Tue1000>>],
                              [index |-> "11202", is_open |-> TRUE,
                               meetings |-> <<Thu1000>>] >>])
 @@ (K098 :> [credits |-> 3, prerequisites |-> <<>>, core_codes |-> 0,
              sections |-> << [index |-> "09801", is_open |-> TRUE,
                               meetings |-> <<Mon1050>>],
                              [index |-> "09802", is_open |-> TRUE,
                               meetings |-> <<Fri0900>>] >>])
 @@ (K830 :> [credits |-> 3, prerequisites |-> <<>>, core_codes |-> 1,
              sections |-> << [index |-> "83001", is_open |-> TRUE,
                               meetings |-> <<Mon1120>>],
                              [index |-> "83002", is_open |-> TRUE,
                               meetings |-> <<>>] >>])
 @@ (K700 :> [credits |-> 2, prerequisites |-> <<"0","1",":","7","0","0",":","1","0","0">>, core_codes |-> 0,
              sections |-> << [index |-> "70000", is_open |-> FALSE,
                               meetings |-> <<Fri0900>>],
                              [index |-> "70001", is_open |-> TRUE,
                               meetings |-> <<ThMidnight>>] >>])

\* ------------------------------------------------------------------------
\* The scheduler object: the catalog it holds and the ranked lists its
\* constructor computes
\* ------------------------------------------------------------------------
VARIABLES data, filler_courses, no_prereq_courses

scheduler == <<data, filler_courses, no_prereq_courses>>

\* a call of build_schedule: its arguments, its result, its locals and the
\* statement it is at
VARIABLES
    course_keys, prefs, include_closed, target_credits, freshman_safe, auto_fill,
    schedule, failed, prereq_issues, total_credits, auto_added,
    scheduled_keys, idx, attempts, pc,
    \* the arguments and the return value of a check_conflict call
    secA, secB, ccResult,
    \* the number of the build_schedule call on this scheduler, and the
    \* result the call before it returned
    run_no, prev_result,
    \* the argument of a normalize_day or time_to_minutes call and the values
    \* the two return
    parseIn, dayOut, timeOut,
    \* the argument and the return value of get_available_courses_by_prereqs
    taken_courses, available,
    \* the module global last_schedule_result and, for each request handler
    \* of chat_api, its message, the statement it is at, the result its
    \* process_chat call built and the schedule_data of its response
    last_schedule_result, message, hpc, chat_result, schedule_data

\* self.data['courses']
Courses == data

\* ------------------------------------------------------------------------
\* Catalog index
\* ------------------------------------------------------------------------

\* get_course: the key of the course the lookup returns, NoCourse for None
\* get_course once key = str(key).strip() is computed: the key of the
\* course the lookup returns, NoCourse for None
LookUp(k) ==
    IF k \in CourseKeys THEN k
    ELSE IF Cardinality(ColonPositions(k)) = 1
    THEN The({ IF padded \in CourseKeys THEN padded ELSE NoCourse :
               padded \in { ZFill(SubSeq(k, 1, c - 1), 3) \o <<":">>
                            \o ZFill(SubSeq(k, c + 1, Len(k)), 3) :
                            c \in ColonPositions(k) } })
    ELSE NoCourse

get_course(key) ==
    IF key = <<>> THEN NoCourse ELSE The({ LookUp(k) : k \in {Strip(key)} })

get_prerequisites(key) ==
    The({ IF c = NoCourse THEN <<>> ELSE Courses[c].prerequisites :
          c \in {get_course(key)} })

\* the loop of check_prereq_conflict over scheduled_keys
check_prereq_conflict(new_key, scheduled) ==
    \E prereq_text \in {get_prerequisites(new_key)} :
        IF prereq_text = <<>> THEN FALSE
        ELSE \E scheduled_key \in scheduled :
                 LET short_key == scheduled_key
                     long_key == <<"0","1",":">> \o scheduled_key
                 IN  Contains(short_key, prereq_text) \/ Contains(long_key, prereq_text)

\* truth value of an Optional[int]: None and 0 are both false
Truthy(n) == n # None /\ n # 0

\* the body of the meetings loop of get_sections: TRUE when m sets skip
MeetingSkips(m, exclude, start_mins, end_mins) ==
    \/ \E day \in {Upper(m.day)} :
           \/ day \in exclude
           \/ (day = <<"T","H">> /\ <<"T","H">> \in exclude)
           \/ (day = <<"F">> /\ <<"F">> \in exclude)
    \/ /\ Truthy(start_mins)
       /\ \E s \in {time_to_minutes(OrElse(m.start_time_24h, m.start_time))} :
              Truthy(s) /\ s < start_mins
    \/ /\ Truthy(end_mins)
       /\ \E e \in {time_to_minutes(OrElse(m.end_time_24h, m.end_time))} :
              Truthy(e) /\ e > end_mins

RECURSIVE SectionsFrom(_, _, _, _, _, _, _)
\* the sections loop of get_sections, from position i of secs
SectionsFrom(secs, i, key, open_only, exclude, start_mins, end_mins) ==
    IF i > Len(secs) THEN <<>>
    ELSE LET sec == secs[i]
             rest == SectionsFrom(secs, i + 1, key, open_only, exclude, start_mins, end_mins)
             skip == \E j \in 1..Len(sec.meetings) :
                         MeetingSkips(sec.meetings[j], exclude, start_mins, end_mins)
             sec_copy == [index |-> sec.index, is_open |-> sec.is_open,
                          meetings |-> sec.meetings, course_key |-> key]
         IN  IF open_only /\ ~sec.is_open THEN rest
             ELSE IF skip THEN rest
             ELSE <<sec_copy>> \o rest

get_sections(key, open_only, exclude_days, start_after, end_before) ==
    The({ IF course = NoCourse THEN <<>>
          ELSE SectionsFrom(Courses[course].sections, 1, key, open_only,
                            exclude, start_mins, end_mins) :
          course \in {get_course(key)},
          exclude \in {{Upper(exclude_days[i]) : i \in 1..Len(exclude_days)}},
          start_mins \in {IF start_after # <<>> THEN time_to_minutes(start_after)
                          ELSE None},
          end_mins \in {IF end_before # <<>> THEN time_to_minutes(end_before)
                        ELSE None} })

\* ------------------------------------------------------------------------
\* Conflict detector
\* ------------------------------------------------------------------------

\* a MeetingsClash that counts an interval ending where the other starts
MeetingsClash_touch(m1, m2) ==
    \E d1 \in {normalize_day(m1.day)}, d2 \in {normalize_day(m2.day)} :
        IF d1 = NoDay \/ d2 = NoDay \/ d1 # d2 THEN FALSE
        ELSE \E s1 \in {time_to_minutes(OrElse(m1.start_time_24h, m1.start_time))},
                e1 \in {time_to_minutes(OrElse(m1.end_time_24h, m1.end_time))},
                s2 \in {time_to_minutes(OrElse(m2.start_time_24h, m2.start_time))},
                e2 \in {time_to_minutes(OrElse(m2.end_time_24h, m2.end_time))} :
                 IF s1 = None \/ e1 = None \/ s2 = None \/ e2 = None THEN FALSE
                 ELSE s1 <= e2 /\ s2 < e1

\* the body of the inner loop of check_conflict: TRUE when it returns True
MeetingsClash(m1, m2) ==
    \E d1 \in {normalize_day(m1.day)}, d2 \in {normalize_day(m2.day)} :
        IF d1 = NoDay \/ d2 = NoDay \/ d1 # d2 THEN FALSE
        ELSE \E s1 \in {time_to_minutes(OrElse(m1.start_time_24h, m1.start_time))},
                e1 \in {time_to_minutes(OrElse(m1.end_time_24h, m1.end_time))},
                s2 \in {time_to_minutes(OrElse(m2.start_time_24h, m2.start_time))},
                e2 \in {time_to_minutes(OrElse(m2.end_time_24h, m2.end_time))} :
                 IF s1 = None \/ e1 = None \/ s2 = None \/ e2 = None THEN FALSE
                 ELSE s1 < e2 /\ s2 < e1

RECURSIVE ConflictFrom(_, _, _, _)
\* the nested loops of check_conflict, from meeting i of sec1 and j of sec2
ConflictFrom(sec1, sec2, i, j) ==
    IF i > Len(sec1.meetings) THEN FALSE
    ELSE IF j > Len(sec2.meetings) THEN ConflictFrom(sec1, sec2, i + 1, 1)
    ELSE IF MeetingsClash(sec1.meetings[i], sec2.meetings[j]) THEN TRUE
    ELSE ConflictFrom(sec1, sec2, i, j + 1)

check_conflict(sec1, sec2) ==
    \E a \in {sec1}, b \in {sec2} : ConflictFrom(a, b, 1, 1)

\* a can_add_section that looks at the last placed section only
can_add_section_last(section, sched) ==
    sched = <<>> \/ ~check_conflict(section, sched[Len(sched)])

can_add_section(section, sched) ==
    \A i \in 1..Len(sched) : ~check_conflict(section, sched[i])

\* ------------------------------------------------------------------------
\* Ranked filler lists (_build_course_lists)
\* ------------------------------------------------------------------------
RECURSIVE IntFrom(_, _, _)
\* the digits of s from position i on, appended to the number acc
IntFrom(s, i, acc) ==
    IF i > Len(s) THEN acc ELSE IntFrom(s, i + 1, 10 * acc + DigitVal(s[i]))

\* int(s) for a string of digits
IntOf(s) == IntFrom(s, 1, 0)

\* key.split(':')[1], or <<>> when the split has a single part
SecondPart(key) ==
    LET cp == ColonPositions(key)
    IN  IF cp = {} THEN <<>>
        ELSE LET c1 == CHOOSE i \in cp : \A j \in cp : i <= j
                 later == {i \in cp : i > c1}
                 c2 == IF later = {} THEN Len(key) + 1
                       ELSE CHOOSE i \in later : \A j \in later : i <= j
             IN  SubSeq(key, c1 + 1, c2 - 1)

\* int(key.split(':')[1]), or None when it raises
CourseNum(key) ==
    LET part == SecondPart(key)
    IN  IF part # <<>> /\ \A i \in 1..Len(part) : IsDigit(part[i]) THEN IntOf(part) ELSE None

OpenCount(key) ==
    Cardinality({i \in 1..Len(Courses[key].sections) : Courses[key].sections[i].is_open})

HasPrereq(key) == Strip(Courses[key].prerequisites) # <<>>

Score(key) ==
    LET credits == Courses[key].credits
        course_num == CourseNum(key)
    IN  OpenCount(key) * 2
        + Courses[key].core_codes * 30
        + (IF 3 <= credits /\ credits <= 4 THEN 20 ELSE 0)
        + (IF course_num = None THEN 0
           ELSE IF course_num < 200 THEN 50
           ELSE IF course_num < 300 THEN 20 ELSE 0)

Candidate(key) ==
    [key |-> key, credits |-> Courses[key].credits,
     has_prereq |-> HasPrereq(key), score |-> Score(key)]

IsCandidate(key) ==
    ~(OpenCount(key) < 1 \/ Courses[key].credits < 1 \/ Courses[key].credits > 4)

RECURSIVE CandidatesFrom(_, _)
\* the loop over self.data['courses'].items(): bonus 0 builds all_candidates,
\* bonus 100 builds no_prereq_candidates
CandidatesFrom(i, bonus) ==
    IF i > Len(CourseOrder) THEN <<>>
    ELSE LET key == CourseOrder[i]
             c == Candidate(key)
             rest == CandidatesFrom(i + 1, bonus)
         IN  IF ~IsCandidate(key) THEN rest
             ELSE IF bonus > 0 /\ c.has_prereq THEN rest
             ELSE <<[c EXCEPT !.score = c.score + bonus]>> \o rest

RECURSIVE SortByScore(_)
\* list.sort(key=lambda x: -x['score']): stable, descending score
SortByScore(l) ==
    IF l = <<>> THEN <<>>
    ELSE LET x == l[Len(l)]
             sorted == SortByScore(SubSeq(l, 1, Len(l) - 1))
             \* x goes after every element whose score is not below its own
             before == {i \in 1..Len(sorted) : sorted[i].score >= x.score}
             n == IF before = {} THEN 0 ELSE CHOOSE i \in before : \A j \in before : j <= i
         IN  SubSeq(sorted, 1, n) \o <<x>> \o SubSeq(sorted, n + 1, Len(sorted))

\* all_candidates (bonus 0) and no_prereq_candidates (bonus 100) after
\* their sort; the catalog is shorter than the 600 and 400 of the slices
FillerList(bonus) == SortByScore(CandidatesFrom(1, bonus))

\* ------------------------------------------------------------------------
\* Schedule assembler (build_schedule)
\* ------------------------------------------------------------------------

\* a catalog whose sections of the course of key carry course_key: what
\* get_sections would leave behind if it wrote to sec and not to a copy
CatalogAfterGetSections_nocopy(cat, key) ==
    The({ IF c = NoCourse THEN cat
          ELSE [cat EXCEPT ![c].sections =
                   [i \in 1..Len(cat[c].sections) |->
                       [f \in DOMAIN cat[c].sections[i] \cup {"course_key"} |->
                           IF f = "course_key" THEN key ELSE cat[c].sections[i][f]]]] :
          c \in {get_course(key)} })

\* the catalog cat after a get_sections call: course_key is written to
\* sec_copy = dict(sec), a section of the catalog is read only
CatalogAfterGetSections(cat, key) == cat

\* the last section that fits instead of the first
FirstFit_last(sections, sched) ==
    The({ IF fits = {} THEN 0 ELSE CHOOSE i \in fits : \A j \in fits : i >= j :
          fits \in {{i \in 1..Len(sections) : can_add_section(sections[i], sched)}} })

\* index of the first section of sections that can_add_section accepts, 0 if none
FirstFit(sections, sched) ==
    The({ IF fits = {} THEN 0 ELSE CHOOSE i \in fits : \A j \in fits : i <= j :
          fits \in {{i \in 1..Len(sections) : can_add_section(sections[i], sched)}} })

PrereqIssue(key) ==
    [course |-> key,
     reason |-> <<"Cannot take ">> \o key
                \o <<" - requires a course you're scheduling simultaneously">>]

\* a PlaceStep without "if key in scheduled_keys: continue"
PlaceStep_noskip(st, key, pf, incl_closed) ==
    IF check_prereq_conflict(key, st.scheduled_keys)
    THEN [st EXCEPT !.prereq_issues = Append(@, PrereqIssue(key)),
                    !.failed = Append(@, key)]
    ELSE The({ The({ IF f # 0
                     THEN [st EXCEPT !.schedule = Append(@, sections[f]),
                                     !.scheduled_keys = @ \cup {key}]
                     ELSE [st EXCEPT !.failed = Append(@, key)] :
                     f \in {FirstFit(sections, st.schedule)} }) :
               sections \in {get_sections(key, ~incl_closed, pf.exclude_days,
                                          pf.start_after, pf.end_before)} })

\* a PlaceStep that forgets to record a key no section of which fits
PlaceStep_nofail(st, key, pf, incl_closed) ==
    IF key \in st.scheduled_keys THEN st
    ELSE IF check_prereq_conflict(key, st.scheduled_keys)
    THEN [st EXCEPT !.prereq_issues = Append(@, PrereqIssue(key)),
                    !.failed = Append(@, key)]
    ELSE The({ The({ IF f # 0
                     THEN [st EXCEPT !.schedule = Append(@, sections[f]),
                                     !.scheduled_keys = @ \cup {key}]
                     ELSE st :
                     f \in {FirstFit(sections, st.schedule)} }) :
               sections \in {get_sections(key, ~incl_closed, pf.exclude_days,
                                          pf.start_after, pf.end_before)} })

\* one iteration of "for key in course_keys" on the state st
PlaceStep(st, key, pf, incl_closed) ==
    IF key \in st.scheduled_keys THEN st
    ELSE IF check_prereq_conflict(key, st.scheduled_keys)
    THEN [st EXCEPT !.prereq_issues = Append(@, PrereqIssue(key)),
                    !.failed = Append(@, key)]
    ELSE The({ The({ IF f # 0
                     THEN [st EXCEPT !.schedule = Append(@, sections[f]),
                                     !.scheduled_keys = @ \cup {key}]
                     ELSE [st EXCEPT !.failed = Append(@, key)] :
                     f \in {FirstFit(sections, st.schedule)} }) :
               sections \in {get_sections(key, ~incl_closed, pf.exclude_days,
                                          pf.start_after, pf.end_before)} })

\* the catalog after one iteration of "for key in course_keys": get_sections
\* is called unless the key is skipped or rejected
PlaceStepCatalog(cat, st, key) ==
    IF key \in st.scheduled_keys \/ check_prereq_conflict(key, st.scheduled_keys)
    THEN cat
    ELSE CatalogAfterGetSections(cat, key)

\* course.get('credits', 0) of the course a placed section was fetched for
SectionCredits(sec) ==
    The({ IF c # NoCourse THEN Courses[c].credits ELSE 0 :
          c \in {get_course(sec.course_key)} })

RECURSIVE CreditsFrom(_, _, _)
\* the loop of calc_credits from position i of sched, total accumulated so far
CreditsFrom(sched, i, total) ==
    IF i > Len(sched) THEN total
    ELSE CreditsFrom(sched, i + 1, total + SectionCredits(sched[i]))

calc_credits(sched) == The({ CreditsFrom(sd, 1, 0) : sd \in {sched} })

\* a guard that asks for two placed sections
AutoFillEnabled_two(af, total, target, sched) == af /\ total < target /\ Len(sched) > 1

\* the guard of the auto-fill block
AutoFillEnabled(af, total, target, sched) == af /\ total < target /\ Len(sched) > 0

\* the condition of the while loop of auto-fill
AutoFillContinues(total, target, att) == total < target /\ att < MAX_ATTEMPTS

\* the checks without the one for a prerequisite conflict
FillerEligible_noconflict(filler, st, fsafe) ==
    /\ filler.key \notin st.scheduled_keys
    /\ ~(st.total_credits + filler.credits > MAX_CREDITS)
    /\ ~(fsafe /\ filler.has_prereq)

\* the checks without the one against MAX_CREDITS
FillerEligible_noceiling(filler, st, fsafe) ==
    /\ filler.key \notin st.scheduled_keys
    /\ ~(fsafe /\ filler.has_prereq)
    /\ ~check_prereq_conflict(filler.key, st.scheduled_keys)

\* the checks a filler passes before its sections are fetched
FillerEligible(filler, st, fsafe) ==
    /\ filler.key \notin st.scheduled_keys
    /\ ~(st.total_credits + filler.credits > MAX_CREDITS)
    /\ ~(fsafe /\ filler.has_prereq)
    /\ ~check_prereq_conflict(filler.key, st.scheduled_keys)

\* the sections of a filler, closed ones included
FillerSections_any(filler, pf) ==
    get_sections(filler.key, FALSE, pf.exclude_days, pf.start_after, pf.end_before)

\* the get_sections call of the auto-fill loop
FillerSections(filler, pf) ==
    get_sections(filler.key, TRUE, pf.exclude_days, pf.start_after, pf.end_before)

\* the filler the scan of one iteration adds: its position in filler_list, 0 if none
\* a filler passes the checks and one of its sections fits the schedule
FillerFits(filler, st, pf, fsafe) ==
    /\ FillerEligible(filler, st, fsafe)
    /\ \E sections \in {FillerSections(filler, pf)} :
           FirstFit(sections, st.schedule) # 0

\* a scan that gives up after the first filler of the list
FirstFiller_head(filler_list, st, pf, fsafe) ==
    IF filler_list # <<>> /\ FillerFits(filler_list[1], st, pf, fsafe) THEN 1 ELSE 0

FirstFiller(filler_list, st, pf, fsafe) ==
    The({ IF ok = {} THEN 0 ELSE CHOOSE i \in ok : \A j \in ok : i <= j :
          ok \in {{i \in 1..Len(filler_list) :
                      FillerFits(filler_list[i], st, pf, fsafe)}} })

AddFiller(st, filler, pf) ==
    The({ The({ [st EXCEPT !.schedule = Append(@, sections[f]),
                           !.scheduled_keys = @ \cup {filler.key},
                           !.auto_added = Append(@, filler.key),
                           !.total_credits = @ + filler.credits] :
                f \in {FirstFit(sections, st.schedule)} }) :
          sections \in {FillerSections(filler, pf)} })

RECURSIVE FillAllFrom(_, _, _, _, _)
\* a filler scan without "if added: break": every eligible filler is added
FillAllFrom(st, filler_list, i, pf, fsafe) ==
    IF i > Len(filler_list) THEN st
    ELSE The({ FillAllFrom(nxt, filler_list, i + 1, pf, fsafe) :
               nxt \in {IF FillerFits(filler_list[i], st, pf, fsafe)
                        THEN AddFiller(st, filler_list[i], pf) ELSE st} })

FillStep_nobreak(st, pf, fsafe) ==
    The({ FillAllFrom(st, filler_list, 1, pf, fsafe) :
          filler_list \in {IF fsafe THEN no_prereq_courses ELSE filler_courses} })

\* an iteration that scans filler_courses and allows prerequisites whatever
\* freshman_safe says
FillStep_unsafe(st, pf, fsafe) ==
    The({ IF i = 0 THEN st ELSE AddFiller(st, filler_courses[i], pf) :
          i \in {FirstFiller(filler_courses, st, pf, FALSE)} })

\* one iteration of the while loop of auto-fill on the state st
FillStep(st, pf, fsafe) ==
    The({ The({ IF i = 0 THEN st ELSE AddFiller(st, filler_list[i], pf) :
                i \in {FirstFiller(filler_list, st, pf, fsafe)} }) :
          filler_list \in {IF fsafe THEN no_prereq_courses ELSE filler_courses} })

RECURSIVE CatalogAfterScan(_, _, _, _, _, _)
\* the catalog after the filler scan of one auto-fill iteration has gone
\* from position i to position last: get_sections is called for the fillers
\* that pass the checks
CatalogAfterScan(cat, filler_list, i, last, st, fsafe) ==
    IF i > last THEN cat
    ELSE The({ CatalogAfterScan(nxt, filler_list, i + 1, last, st, fsafe) :
               nxt \in {IF FillerEligible(filler_list[i], st, fsafe)
                        THEN CatalogAfterGetSections(cat, filler_list[i].key)
                        ELSE cat} })

\* the catalog after one iteration of the while loop of auto-fill: the scan
\* stops at the filler it adds
FillStepCatalog(cat, st, pf, fsafe) ==
    The({ The({ CatalogAfterScan(cat, filler_list, 1,
                                 IF i = 0 THEN Len(filler_list) ELSE i, st, fsafe) :
                i \in {FirstFiller(filler_list, st, pf, fsafe)} }) :
          filler_list \in {IF fsafe THEN no_prereq_courses ELSE filler_courses} })

\* a result that starts empty with the scheduled_keys of the call before,
\* as if the set were kept on the scheduler object
EmptyState_stale ==
    [schedule |-> <<>>, failed |-> <<>>, prereq_issues |-> <<>>,
     total_credits |-> 0, auto_added |-> <<>>, scheduled_keys |-> scheduled_keys]

\* result and scheduled_keys as build_schedule creates them when called
EmptyState ==
    [schedule |-> <<>>, failed |-> <<>>, prereq_issues |-> <<>>,
     total_credits |-> 0, auto_added |-> <<>>, scheduled_keys |-> {}]

RECURSIVE PlaceAll(_, _, _, _, _)
\* the placement loop from position i of keys
PlaceAll(st, keys, i, pf, incl_closed) ==
    IF i > Len(keys) THEN st
    ELSE The({ PlaceAll(nxt, keys, i + 1, pf, incl_closed) :
               nxt \in {PlaceStep(st, keys[i], pf, incl_closed)} })

RECURSIVE FillLoop(_, _, _, _, _)
\* the while loop of auto-fill, att iterations done
FillLoop(st, att, target, pf, fsafe) ==
    IF ~AutoFillContinues(st.total_credits, target, att) THEN st
    ELSE The({ IF nxt = st THEN st ELSE FillLoop(nxt, att + 1, target, pf, fsafe) :
               nxt \in {FillStep(st, pf, fsafe)} })

\* build_schedule as a function of its arguments: the state it returns from
build_schedule(keys, pf, incl_closed, target, fsafe, af) ==
    The({ IF AutoFillEnabled(af, counted.total_credits, target, counted.schedule)
          THEN FillLoop(counted, 0, target, pf, fsafe)
          ELSE counted :
          counted \in { [placed EXCEPT !.total_credits = calc_credits(placed.schedule)] :
                        placed \in {PlaceAll(EmptyState, keys, 1, pf, incl_closed)} } })

\* ------------------------------------------------------------------------
\* Inputs of build_schedule
\* ------------------------------------------------------------------------
\* the keys a request list is drawn from: a course and the course that
\* requires it, a course under the two spellings get_course accepts, and a
\* key that is not in the catalog
RequestKeys == {K111, K112, K098, K98, K999}

ReqLists == UNION {[1..n -> RequestKeys] : n \in 0..MaxReq}

NoPrefs == [exclude_days |-> <<>>, start_after |-> <<>>, end_before |-> <<>>]

PrefChoices ==
    { NoPrefs,
      [NoPrefs EXCEPT !.exclude_days = << <<"F">> >>],
      [NoPrefs EXCEPT !.exclude_days = << <<"F","r","i","d","a","y">> >>],
      [NoPrefs EXCEPT !.start_after = <<"1","1",":","0","0">>],
      [NoPrefs EXCEPT !.end_before = <<"1","2",":","0","0"," ","A","M">>] }

\* target_credits of the runs that auto-fill: one below what the catalog can
\* reach and one above MAX_CREDITS
TargetChoices == {8, 20}

\* ------------------------------------------------------------------------
\* Inputs of check_conflict called on its own
\* ------------------------------------------------------------------------
ProbeMeetings ==
    { [day |-> <<"M","o","n","d","a","y">>, start_time_24h |-> <<"1","0",":","0","0">>, start_time |-> <<"1","0",":","0","0"," ","A","M">>,
        end_time_24h |-> <<"1","1",":","2","0">>, end_time |-> <<"1","1",":","2","0"," ","A","M">>],
      [day |-> <<"M">>, start_time_24h |-> <<>>, start_time |-> <<"1","1",":","2","0"," ","A","M">>,
        end_time_24h |-> <<>>, end_time |-> <<"1","2",":","4","0"," ","P","M">>],
      [day |-> <<" ","m","o","n","d","a","y">>, start_time_24h |-> <<"1","0",":","5","0">>, start_time |-> <<"1","0",":","5","0"," ","A","M">>,
        end_time_24h |-> <<"1","2",":","1","0">>, end_time |-> <<"1","2",":","1","0"," ","P","M">>],
      [day |-> <<"T","u","e","s","d","a","y">>, start_time_24h |-> <<"1","0",":","0","0">>, start_time |-> <<"1","0",":","0","0"," ","A","M">>,
        end_time_24h |-> <<"1","1",":","2","0">>, end_time |-> <<"1","1",":","2","0"," ","A","M">>],
      [day |-> <<"M","o","n","d","a","y">>, start_time_24h |-> <<>>, start_time |-> <<"T","B","A">>,
        end_time_24h |-> <<>>, end_time |-> <<"T","B","A">>],
      [day |-> <<"T","B","A">>, start_time_24h |-> <<"1","0",":","0","0">>, start_time |-> <<"1","0",":","0","0"," ","A","M">>,
        end_time_24h |-> <<"1","1",":","2","0">>, end_time |-> <<"1","1",":","2","0"," ","A","M">>] }

ProbeMeetingLists == UNION {[1..n -> ProbeMeetings] : n \in 0..MaxMeetings}

ProbeSections ==
    {[index |-> "probe", is_open |-> TRUE, meetings |-> ms] : ms \in ProbeMeetingLists}

NoSection == [index |-> "", is_open |-> FALSE, meetings |-> <<>>]

\* ------------------------------------------------------------------------
\* State
\* ------------------------------------------------------------------------
inputs == <<course_keys, prefs, include_closed, target_credits, freshman_safe, auto_fill>>
result == <<schedule, failed, prereq_issues, total_credits, auto_added>>
probe == <<secA, secB, ccResult>>
rerun == <<run_no, prev_result>>
parse == <<parseIn, dayOut, timeOut>>
avail == <<taken_courses, available>>
chat == <<last_schedule_result, message, hpc, chat_result, schedule_data>>
aux == <<rerun, parse, avail, chat>>
vars == <<scheduler, inputs, result, scheduled_keys, idx, attempts, pc, probe, aux>>

\* the local state of a build_schedule run, as one record
State ==
    [schedule |-> schedule, failed |-> failed, prereq_issues |-> prereq_issues,
     total_credits |-> total_credits, auto_added |-> auto_added,
     scheduled_keys |-> scheduled_keys]

SetState(st) ==
    /\ schedule' = st.schedule
    /\ failed' = st.failed
    /\ prereq_issues' = st.prereq_issues
    /\ total_credits' = st.total_credits
    /\ auto_added' = st.auto_added
    /\ scheduled_keys' = st.scheduled_keys

\* RutgersScheduler(): load_data and _build_course_lists
Constructed ==
    /\ data = Catalog
    /\ filler_courses = FillerList(0)
    /\ no_prereq_courses = FillerList(100)

\* the first call of build_schedule on the scheduler is the one under way
RerunIdle ==
    /\ run_no = 1
    /\ prev_result = EmptyState

\* no normalize_day or time_to_minutes call is under way
ParseIdle ==
    /\ parseIn = [kind |-> "none", text |-> <<>>, h |-> None, m |-> None, period |-> ""]
    /\ dayOut = NoDay
    /\ timeOut = None

\* get_available_courses_by_prereqs has not been called
AvailIdle ==
    /\ taken_courses = <<>>
    /\ available = <<>>

Handlers == {1, 2}

\* last_schedule_result = None, and a result of process_chat that is None
NoResult == [set |-> FALSE, schedule |-> <<>>, total_credits |-> 0]

NoMessage ==
    [explicit_courses |-> <<>>, taken |-> <<>>, wants_schedule |-> FALSE,
     prefs |-> NoPrefs, subject |-> <<>>]

\* no chat request is being handled
ChatIdle ==
    /\ last_schedule_result = NoResult
    /\ message = [h \in Handlers |-> NoMessage]
    /\ hpc = [h \in Handlers |-> "idle"]
    /\ chat_result = [h \in Handlers |-> NoResult]
    /\ schedule_data = [h \in Handlers |-> NoResult]

AuxIdle == RerunIdle /\ ParseIdle /\ AvailIdle /\ ChatIdle

\* the scheduler is constructed and build_schedule has not been called
Init ==
    /\ Constructed
    /\ course_keys = <<>>
    /\ prefs = NoPrefs
    /\ include_closed = FALSE
    /\ auto_fill = FALSE
    /\ target_credits = TARGET_CREDITS
    /\ freshman_safe = TRUE
    /\ schedule = <<>>
    /\ failed = <<>>
    /\ prereq_issues = <<>>
    /\ total_credits = 0
    /\ auto_added = <<>>
    /\ scheduled_keys = {}
    /\ idx = 1
    /\ attempts = 0
    /\ pc = "idle"
    /\ secA = NoSection
    /\ secB = NoSection
    /\ ccResult = FALSE
    /\ AuxIdle

\* build_schedule is called with a request list of lists: its arguments,
\* and the fresh result and scheduled_keys it starts from
CallWith(lists) ==
    /\ pc = "idle"
    /\ course_keys' \in lists
    /\ prefs' \in PrefChoices
    /\ include_closed' \in BOOLEAN
    /\ auto_fill' \in BOOLEAN
    \* without auto-fill the target and freshman_safe are not read: defaults
    /\ target_credits' \in IF auto_fill' THEN TargetChoices ELSE {TARGET_CREDITS}
    /\ freshman_safe' \in IF auto_fill' THEN BOOLEAN ELSE {TRUE}
    /\ SetState(EmptyState)
    /\ idx' = 1
    /\ attempts' = 0
    /\ pc' = "place"
    /\ UNCHANGED <<scheduler, probe, aux>>

Call == CallWith(ReqLists)

\* one iteration of the placement loop
Place ==
    /\ pc = "place"
    /\ idx <= Len(course_keys)
    /\ \E st \in {PlaceStep(State, course_keys[idx], prefs, include_closed)} :
           SetState(st)
    /\ data' = PlaceStepCatalog(data, State, course_keys[idx])
    /\ idx' = idx + 1
    /\ UNCHANGED <<filler_courses, no_prereq_courses, inputs, attempts, pc, probe, aux>>

\* calc_credits and the guard of the auto-fill block
CalcCredits ==
    /\ pc = "place"
    /\ idx > Len(course_keys)
    /\ total_credits' = calc_credits(schedule)
    /\ pc' = IF AutoFillEnabled(auto_fill, total_credits', target_credits, schedule)
             THEN "fill" ELSE "done"
    /\ UNCHANGED <<scheduler, inputs, schedule, failed, prereq_issues, auto_added,
                   scheduled_keys, idx, attempts, probe, aux>>

\* one iteration of the auto-fill loop; "if not added: break" returns
FillIteration ==
    /\ pc = "fill"
    /\ AutoFillContinues(total_credits, target_credits, attempts)
    /\ attempts' = attempts + 1
    /\ \E st \in {FillStep(State, prefs, freshman_safe)} :
           /\ SetState(st)
           /\ pc' = IF st = State THEN "done" ELSE "fill"
    /\ data' = FillStepCatalog(data, State, prefs, freshman_safe)
    /\ UNCHANGED <<filler_courses, no_prereq_courses, inputs, idx, probe, aux>>

\* the while condition fails: build_schedule returns
FillExit ==
    /\ pc = "fill"
    /\ ~AutoFillContinues(total_credits, target_credits, attempts)
    /\ pc' = "done"
    /\ UNCHANGED <<scheduler, inputs, result, scheduled_keys, idx, attempts, probe, aux>>

Next == Call \/ Place \/ CalcCredits \/ FillIteration \/ FillExit

Spec == Init /\ [][Next]_vars

\* the control variables of a build_schedule run
ctl == <<pc, idx, attempts>>

\* the control flow of build_schedule: the next loop iteration or the exit
\* of a loop, whatever it does to the result
Advance ==
    \/ /\ pc = "place"
       /\ idx <= Len(course_keys)
       /\ idx' = idx + 1
       /\ UNCHANGED <<pc, attempts>>
    \/ /\ pc = "place"
       /\ idx > Len(course_keys)
       /\ pc' \in {"fill", "done"}
       /\ UNCHANGED <<idx, attempts>>
    \/ /\ pc = "fill"
       /\ AutoFillContinues(total_credits, target_credits, attempts)
       /\ attempts' = attempts + 1
       /\ pc' \in {"fill", "done"}
       /\ UNCHANGED idx
    \/ /\ pc = "fill"
       /\ ~AutoFillContinues(total_credits, target_credits, attempts)
       /\ pc' = "done"
       /\ UNCHANGED <<idx, attempts>>

\* build_schedule is synchronous and single-threaded: once called, the
\* interpreter keeps executing its next statement
FairSpec == Spec /\ WF_ctl(Advance)

\* check_conflict called on two sections, outside a build_schedule run
InitConflict ==
    /\ Constructed
    /\ course_keys = <<>>
    /\ prefs = NoPrefs
    /\ include_closed = FALSE
    /\ auto_fill = FALSE
    /\ target_credits = TARGET_CREDITS
    /\ freshman_safe = TRUE
    /\ schedule = <<>>
    /\ failed = <<>>
    /\ prereq_issues = <<>>
    /\ total_credits = 0
    /\ auto_added = <<>>
    /\ scheduled_keys = {}
    /\ idx = 1
    /\ attempts = 0
    /\ pc = "check_conflict"
    /\ secA \in ProbeSections
    /\ secB \in ProbeSections
    /\ ccResult = FALSE
    /\ AuxIdle

CheckConflictCall ==
    /\ pc = "check_conflict"
    /\ ccResult' = check_conflict(secA, secB)
    /\ pc' = "returned"
    /\ UNCHANGED <<scheduler, inputs, result, scheduled_keys, idx, attempts,
                   secA, secB, aux>>

NextConflict == CheckConflictCall

SpecConflict == InitConflict /\ [][NextConflict]_vars

\* request lists of the calls that are made twice
RerunLists == UNION {[1..n -> RequestKeys] : n \in 0..MaxRerunReq}

CallOnce == CallWith(RerunLists)

\* build_schedule has returned and is called again on the same scheduler
\* with the same arguments
Rerun ==
    /\ pc = "done"
    /\ run_no = 1
    /\ prev_result' = State
    /\ run_no' = 2
    /\ SetState(EmptyState)
    /\ idx' = 1
    /\ attempts' = 0
    /\ pc' = "place"
    /\ UNCHANGED <<scheduler, inputs, probe, parse, avail, chat>>

NextTwice == CallOnce \/ Place \/ CalcCredits \/ FillIteration \/ FillExit \/ Rerun

SpecTwice == Init /\ [][NextTwice]_vars

\* ------------------------------------------------------------------------
\* normalize_day and time_to_minutes called on their own
\* ------------------------------------------------------------------------
DayWords ==
    { <<"M">>,
      <<"T">>,
      <<"W">>,
      <<"R">>,
      <<"F">>,
      <<"T","H">>,
      <<"M","o","n","d","a","y">>,
      <<"T","u","e","s","d","a","y">>,
      <<"W","e","d","n","e","s","d","a","y">>,
      <<"T","h","u","r","s","d","a","y">>,
      <<"F","r","i","d","a","y">>,
      <<"M","o","n">>,
      <<"T","u","e">>,
      <<"T","u","e","s">>,
      <<"W","e","d">>,
      <<"T","h","u">>,
      <<"T","h","u","r">>,
      <<"T","h","u","r","s">>,
      <<"F","r","i">>,
      <<"T","B","A">>,
      <<"W","E","B">>,
      <<"S","a","t">>,
      <<"S","u","n">>,
      <<"O","n","l","i","n","e">>,
      <<"A","r","r","a","n","g","e","d">> }

LowerChar(c) ==
    IF \E i \in 1..26 : UpperChars[i] = c
    THEN LowerChars[CHOOSE i \in 1..26 : UpperChars[i] = c]
    ELSE c

\* str.lower()
Lower(s) == [i \in 1..Len(s) |-> LowerChar(s[i])]

\* the day strings handed to normalize_day: each word as written, in upper
\* case, in lower case, and in lower case between spaces
DayTexts ==
    UNION { {w, Upper(w), Lower(w), <<" ">> \o Lower(w) \o <<" ">>} : w \in DayWords }

DayInputs ==
    { [kind |-> "day", text |-> t, h |-> None, m |-> None, period |-> ""] : t \in DayTexts }

Digit(n) == DigitChars[n + 1]

\* an hour as one digit, or as two digits with a leading zero
HourTexts(h) ==
    IF h < 10 THEN { <<Digit(h)>>, <<"0", Digit(h)>> }
    ELSE { <<Digit(h \div 10), Digit(h % 10)>> }

MinuteChoices == {0, 5, 30, 59, 60, 99}

MinuteText(m) == <<Digit(m \div 10), Digit(m % 10)>>

\* what follows h:mm: nothing, a marker with or without a space and in
\* either case, seconds
Suffixes ==
    { [text |-> <<>>, period |-> ""],
      [text |-> <<" ","A","M">>, period |-> "AM"],
      [text |-> <<" ","P","M">>, period |-> "PM"],
      [text |-> <<"a","m">>, period |-> "AM"],
      [text |-> <<" "," ","p","m">>, period |-> "PM"],
      [text |-> <<":","0","0">>, period |-> ""],
      [text |-> <<":","0","0"," ","P","M">>, period |-> "PM"] }

\* time strings of the form h:mm with the hour, minute and marker they spell
TimeInputs ==
    UNION { { [kind |-> "time", text |-> ht \o <<":">> \o MinuteText(m) \o sf.text,
               h |-> h, m |-> m, period |-> sf.period] :
                ht \in HourTexts(h), m \in MinuteChoices, sf \in Suffixes } :
            h \in 0..MaxHour }

\* strings that are not of the form h:mm
BadTimeInputs ==
    { [kind |-> "badtime", text |-> t, h |-> None, m |-> None, period |-> ""] :
        t \in { <<"T","B","A">>,
      <<"1","0","3","0">>,
      <<"1","0",":","5">>,
      <<"1","2","3",":","4","5">>,
      <<":","3","0">>,
      <<"n","o","o","n">>,
      <<"1","0",".","3","0"," ","A","M">> } }

RunIdle ==
    /\ course_keys = <<>>
    /\ prefs = NoPrefs
    /\ include_closed = FALSE
    /\ auto_fill = FALSE
    /\ target_credits = TARGET_CREDITS
    /\ freshman_safe = TRUE
    /\ schedule = <<>>
    /\ failed = <<>>
    /\ prereq_issues = <<>>
    /\ total_credits = 0
    /\ auto_added = <<>>
    /\ scheduled_keys = {}
    /\ idx = 1
    /\ attempts = 0

ProbeIdle ==
    /\ secA = NoSection
    /\ secB = NoSection
    /\ ccResult = FALSE

InitParse ==
    /\ Constructed
    /\ RunIdle
    /\ ProbeIdle
    /\ RerunIdle
    /\ AvailIdle
    /\ ChatIdle
    /\ parseIn \in DayInputs \cup BadTimeInputs \cup TimeInputs
    /\ dayOut = NoDay
    /\ timeOut = None
    /\ pc = IF parseIn.kind = "day" THEN "normalize_day" ELSE "time_to_minutes"

NormalizeDayCall ==
    /\ pc = "normalize_day"
    /\ dayOut' = normalize_day(parseIn.text)
    /\ pc' = "day_returned"
    /\ UNCHANGED <<scheduler, inputs, result, scheduled_keys, idx, attempts, probe,
                   rerun, parseIn, timeOut, avail, chat>>

TimeToMinutesCall ==
    /\ pc = "time_to_minutes"
    /\ timeOut' = time_to_minutes(parseIn.text)
    /\ pc' = "time_returned"
    /\ UNCHANGED <<scheduler, inputs, result, scheduled_keys, idx, attempts, probe,
                   rerun, parseIn, dayOut, avail, chat>>

NextParse == NormalizeDayCall \/ TimeToMinutesCall

SpecParse == InitParse /\ [][NextParse]_vars

\* ------------------------------------------------------------------------
\* get_available_courses_by_prereqs
\* ------------------------------------------------------------------------
K107 == <<"1","9","8",":","1","0","7">>

\* three digits at positions p, p+1, p+2 of s
ThreeDigits(s, p) == IsDigit(At(s, p)) /\ IsDigit(At(s, p + 1)) /\ IsDigit(At(s, p + 2))

\* length of the match of (\d{2,3}):(\d{3}) at position p of s, 0 if none:
\* three digits before the colon are tried first, then two
CodeMatchLen(s, p) ==
    IF ThreeDigits(s, p) /\ At(s, p + 3) = ":" /\ ThreeDigits(s, p + 4) THEN 7
    ELSE IF IsDigit(At(s, p)) /\ IsDigit(At(s, p + 1)) /\ At(s, p + 2) = ":"
            /\ ThreeDigits(s, p + 3) THEN 6
    ELSE 0

RECURSIVE FindCodes(_, _, _)
\* re.findall(r'(\d{2,3}):(\d{3})', s) from position p on, each match
\* normalised as f"{p[0].zfill(3)}:{p[1]}" and appended to found
FindCodes(s, p, found) ==
    IF p > Len(s) THEN found
    ELSE The({ IF n = 0 THEN FindCodes(s, p + 1, found)
               ELSE FindCodes(s, p + n,
                              Append(found, ZFill(SubSeq(s, p, p + n - 5), 3)
                                            \o SubSeq(s, p + n - 4, p + n - 1))) :
               n \in {CodeMatchLen(s, p)} })

\* the set normalized_taken built from the history
NormalizedTaken(taken) ==
    UNION { {taken[i]} \cup
            (IF Cardinality(ColonPositions(taken[i])) = 1
             THEN { ZFill(SubSeq(taken[i], 1, c - 1), 3)
                    \o SubSeq(taken[i], c, Len(taken[i])) : c \in ColonPositions(taken[i]) }
             ELSE {}) : i \in 1..Len(taken) }

\* prereqs_met: every extracted code is matched by the history
PrereqsMet(codes, taken) ==
    \E normalized_taken \in {NormalizedTaken(taken)} :
        \A n \in 1..Len(codes) :
            \E t \in Range(taken) : codes[n] \in normalized_taken \/ codes[n] = t

\* whether the loop over the catalog appends course_key to available
IsAvailable(course_key, taken) ==
    \E prereq_text \in {Strip(Courses[course_key].prerequisites)} :
        IF OpenCount(course_key) = 0 THEN FALSE
        ELSE IF prereq_text = <<>> THEN TRUE
        ELSE \E codes \in {FindCodes(prereq_text, 1, <<>>)} :
                 codes # <<>> /\ PrereqsMet(codes, taken)

RECURSIVE AvailableFrom(_, _, _)
\* the loop over self.data['courses'].items() from position i of the catalog
AvailableFrom(i, taken, acc) ==
    IF i > Len(CourseOrder) THEN acc
    ELSE AvailableFrom(i + 1, taken,
                       IF IsAvailable(CourseOrder[i], taken)
                       THEN Append(acc, CourseOrder[i]) ELSE acc)

get_available_courses_by_prereqs(taken) ==
    The({ AvailableFrom(1, t, <<>>) : t \in {taken} })

\* keys a course history can hold: they match ^\d{2,3}:\d{3}$
TakenKeys == {K111, K107, K098, K98, K830}

TakenLists == UNION {[1..n -> TakenKeys] : n \in 0..MaxTaken}

InitAvail ==
    /\ Constructed
    /\ RunIdle
    /\ ProbeIdle
    /\ RerunIdle
    /\ ParseIdle
    /\ ChatIdle
    /\ taken_courses \in TakenLists
    /\ available = <<>>
    /\ pc = "get_available"

GetAvailableCall ==
    /\ pc = "get_available"
    /\ available' = get_available_courses_by_prereqs(taken_courses)
    /\ pc' = "available_returned"
    /\ UNCHANGED <<scheduler, inputs, result, scheduled_keys, idx, attempts, probe,
                   rerun, parse, taken_courses, chat>>

NextAvail == GetAvailableCall

SpecAvail == InitAvail /\ [][NextAvail]_vars

\* ------------------------------------------------------------------------
\* chat_api and process_chat (schedule building), two requests in flight
\* ------------------------------------------------------------------------

\* day_map of normalize_day_name, in insertion order
DAY_NAME_MAP ==
    << << <<"M">>, <<"M","o","n","d","a","y">> >>,
       << <<"M","O","N","D","A","Y">>, <<"M","o","n","d","a","y">> >>,
       << <<"T">>, <<"T","u","e","s","d","a","y">> >>,
       << <<"T","U","E","S","D","A","Y">>, <<"T","u","e","s","d","a","y">> >>,
       << <<"W">>, <<"W","e","d","n","e","s","d","a","y">> >>,
       << <<"W","E","D","N","E","S","D","A","Y">>, <<"W","e","d","n","e","s","d","a","y">> >>,
       << <<"T","H">>, <<"T","h","u","r","s","d","a","y">> >>,
       << <<"R">>, <<"T","h","u","r","s","d","a","y">> >>,
       << <<"T","H","U","R","S","D","A","Y">>, <<"T","h","u","r","s","d","a","y">> >>,
       << <<"F">>, <<"F","r","i","d","a","y">> >>,
       << <<"F","R","I","D","A","Y">>, <<"F","r","i","d","a","y">> >> >>

\* normalize_day_name once d = day_code.strip().upper() is computed;
\* <<>> stands for None
DayNameOfCode(d) ==
    LET exact == {i \in 1..Len(DAY_NAME_MAP) : DAY_NAME_MAP[i][1] = d}
        loose == {i \in 1..Len(DAY_NAME_MAP) :
                     StartsWith(d, DAY_NAME_MAP[i][1]) \/ StartsWith(DAY_NAME_MAP[i][1], d)}
        first(S) == CHOOSE i \in S : \A j \in S : i <= j
    IN  IF exact # {} THEN DAY_NAME_MAP[first(exact)][2]
        ELSE IF loose # {} THEN DAY_NAME_MAP[first(loose)][2]
        ELSE <<>>

normalize_day_name(day_code) ==
    IF day_code = <<>> THEN <<>>
    ELSE The({ DayNameOfCode(d) : d \in {Upper(Strip(day_code))} })

\* formatted_meeting of format_schedule_for_frontend
FormatMeeting(meeting) ==
    [day |-> OrElse(normalize_day_name(meeting.day), meeting.day),
     start_time |-> meeting.start_time, end_time |-> meeting.end_time,
     start_time_24h |-> meeting.start_time_24h, end_time_24h |-> meeting.end_time_24h]

\* formatted_section of format_schedule_for_frontend
FormatSection(section) ==
    The({ [course_key |-> section.course_key,
           credits |-> IF course = NoCourse THEN 0 ELSE Courses[course].credits,
           is_open |-> section.is_open,
           meetings |-> [j \in 1..Len(section.meetings) |-> FormatMeeting(section.meetings[j])]] :
          course \in {get_course(section.course_key)} })

format_schedule_for_frontend(sched) ==
    [set |-> TRUE, schedule |-> [i \in 1..Len(sched) |-> FormatSection(sched[i])]]

RECURSIVE WithoutTaken(_, _, _)
\* [c for c in keys if c not in already_taken], from position i
WithoutTaken(keys, i, already_taken) ==
    IF i > Len(keys) THEN <<>>
    ELSE (IF keys[i] \in Range(already_taken) THEN <<>> ELSE <<keys[i]>>)
         \o WithoutTaken(keys, i + 1, already_taken)

RECURSIVE SectionsWithoutTaken(_, _, _)
\* [s for s in result['schedule'] if s.get('course_key') not in already_taken]
SectionsWithoutTaken(sched, i, already_taken) ==
    IF i > Len(sched) THEN <<>>
    ELSE (IF sched[i].course_key \in Range(already_taken) THEN <<>> ELSE <<sched[i]>>)
         \o SectionsWithoutTaken(sched, i + 1, already_taken)

\* the result once the already-taken courses are filtered out of it
FilterTaken(r, already_taken) ==
    IF already_taken = <<>> THEN r
    ELSE [r EXCEPT !.schedule = SectionsWithoutTaken(r.schedule, 1, already_taken),
                   !.auto_added = WithoutTaken(r.auto_added, 1, already_taken)]

\* "Try to add missing courses" for one course_key: the first section of
\* get_sections(course_key, open_only=True) that fits is appended
AddMissingCourse(r, course_key) ==
    The({ IF FirstFit(sections, r.schedule) = 0 THEN r
          ELSE [r EXCEPT !.schedule = Append(r.schedule, sections[FirstFit(sections, r.schedule)]),
                         !.total_credits = r.total_credits + Courses[get_course(course_key)].credits] :
          sections \in {get_sections(course_key, TRUE, <<>>, <<>>, <<>>)} })

RECURSIVE AddMissing(_, _, _, _)
\* the loop over missing, the requested keys that were not in the schedule
\* when the loop began, from position i of the requested keys
AddMissing(r, keys, i, before) ==
    IF i > Len(keys) THEN r
    ELSE AddMissing(IF keys[i] \in before THEN r ELSE AddMissingCourse(r, keys[i]),
                    keys, i + 1, before)

\* some position of text holds one of the subject codes, ':' and three digits
MentionsSubject(text, subjects) ==
    \E q \in 1..Len(text) :
        /\ q + 6 <= Len(text)
        /\ SubSeq(text, q, q + 2) \in subjects
        /\ text[q + 3] = ":"
        /\ ThreeDigits(text, q + 4)

\* is_math_only_prereq: the prerequisite text names a 640 course and no
\* course of the other listed subjects
is_math_only_prereq(key) ==
    \E prereq \in {Lower(get_prerequisites(key))} :
        /\ prereq # <<>>
        /\ MentionsSubject(prereq, {<<"6","4","0">>})
        /\ ~MentionsSubject(prereq, {<<"1","9","8">>, <<"7","5","0">>, <<"1","6","0">>,
                                      <<"1","1","9">>, <<"2","2","0">>, <<"8","3","0">>})

\* FRESHMAN_INTRO_COURSES.get(subject_code, []), for the subjects of the catalog
SafeIntros(subject_code) ==
    IF subject_code = <<"1","9","8">> THEN {K111, <<"1","9","8",":","1","1","0">>}
    ELSE IF subject_code = <<"8","3","0">> THEN {K830}
    ELSE {}

\* the score get_courses_by_subject gives a course of the subject
SubjectScore(key, subject_code) ==
    OpenCount(key) * 2
    + (IF key \in SafeIntros(subject_code) THEN 200 ELSE 0)
    + (IF At(key, 5) = "1" THEN 100 ELSE IF At(key, 5) = "2" THEN 50 ELSE 0)
    + (IF ~HasPrereq(key) THEN 80 ELSE IF is_math_only_prereq(key) THEN 40 ELSE 0)

\* whether the loop of get_courses_by_subject keeps the course
IsSubjectCandidate(key, subject_code, fsafe) ==
    /\ StartsWith(key, subject_code \o <<":">>)
    /\ OpenCount(key) # 0
    /\ ~(fsafe /\ HasPrereq(key)
          /\ ~(key \in SafeIntros(subject_code) \/ is_math_only_prereq(key)))

RECURSIVE SubjectCandidatesFrom(_, _, _)
\* the loop over self.data['courses'].keys() from position i of the catalog
SubjectCandidatesFrom(i, subject_code, fsafe) ==
    IF i > Len(CourseOrder) THEN <<>>
    ELSE (IF IsSubjectCandidate(CourseOrder[i], subject_code, fsafe)
          THEN <<[key |-> CourseOrder[i],
                  score |-> SubjectScore(CourseOrder[i], subject_code)]>>
          ELSE <<>>)
         \o SubjectCandidatesFrom(i + 1, subject_code, fsafe)

\* the first n elements of l
FirstN(l, n) == SubSeq(l, 1, IF Len(l) < n THEN Len(l) ELSE n)

get_courses_by_subject(subject_code, fsafe) ==
    The({ FirstN([i \in 1..Len(sorted) |-> sorted[i].key], 10) :
          sorted \in {SortByScore(SubjectCandidatesFrom(1, subject_code, fsafe))} })

RECURSIVE OnlyAvailable(_, _, _)
\* [c for c in subject_courses if c in available_by_prereqs], from position i
OnlyAvailable(keys, i, available_by_prereqs) ==
    IF i > Len(keys) THEN <<>>
    ELSE (IF keys[i] \in Range(available_by_prereqs) THEN <<keys[i]>> ELSE <<>>)
         \o OnlyAvailable(keys, i + 1, available_by_prereqs)

\* the courses process_chat takes from the subject of the message when it
\* names no course the student can still take
SubjectCourses(subject, already_taken) ==
    The({ The({ IF subject_available # <<>> THEN FirstN(subject_available, 2)
                ELSE FirstN(subject_courses, 2) :
                subject_available \in
                    {OnlyAvailable(subject_courses, 1,
                                   get_available_courses_by_prereqs(already_taken))} }) :
          subject_courses \in {WithoutTaken(get_courses_by_subject(subject, FALSE), 1,
                                            already_taken)} })

\* courses_to_schedule of CASE 4
CoursesToSchedule(explicit_courses_filtered, subject, already_taken) ==
    IF subject # <<>> /\ explicit_courses_filtered = <<>>
    THEN SubjectCourses(subject, already_taken)
    ELSE explicit_courses_filtered

\* CASE 4 of process_chat: the result it stores in last_schedule_result.
\* The message carries no credit target and no class year.
ScheduleCase(explicit_courses, already_taken, pf, subject) ==
    The({ IF explicit_courses_filtered = <<>> THEN filtered
          ELSE AddMissing(filtered, explicit_courses_filtered, 1,
                          {filtered.schedule[i].course_key : i \in 1..Len(filtered.schedule)}) :
          explicit_courses_filtered \in {WithoutTaken(explicit_courses, 1, already_taken)},
          filtered \in { FilterTaken([set |-> TRUE] @@ built, already_taken) :
                         built \in { build_schedule(CoursesToSchedule(ecf, subject, already_taken),
                                                    pf, FALSE, TARGET_CREDITS, FALSE, ecf = <<>>) :
                                     ecf \in {WithoutTaken(explicit_courses, 1, already_taken)} } } })

\* what process_chat assigns to last_schedule_result, NoResult if the
\* message is answered without building a schedule
process_chat(msg) ==
    IF msg.wants_schedule \/ msg.explicit_courses # <<>> \/ msg.subject # <<>>
    THEN ScheduleCase(msg.explicit_courses, msg.taken, msg.prefs, msg.subject)
    ELSE NoResult

\* courses a message names, as parse_courses returns them: catalog keys,
\* each once
ChatKeys == {K111, K112}

ChatLists(keys) ==
    {l \in UNION {[1..n -> keys] : n \in 0..MaxChatReq} :
        \A i, j \in 1..Len(l) : i # j => l[i] # l[j]}

ExplicitLists == ChatLists(ChatKeys)

\* course histories of the sessions
ChatHistories == {<<>>, <<K111>>}

\* the messages of the two requests in flight: they name no preference and
\* no subject
ChatMessages ==
    [explicit_courses : ExplicitLists, taken : ChatHistories, wants_schedule : BOOLEAN,
     prefs : {NoPrefs}, subject : {<<>>}]

InitChat ==
    /\ Constructed
    /\ RunIdle
    /\ ProbeIdle
    /\ RerunIdle
    /\ ParseIdle
    /\ AvailIdle
    /\ pc = "chat"
    /\ last_schedule_result = NoResult
    /\ message \in [Handlers -> ChatMessages]
    /\ hpc = [h \in Handlers |-> "reset"]
    /\ chat_result = [h \in Handlers |-> NoResult]
    /\ schedule_data = [h \in Handlers |-> NoResult]

\* chat_api: last_schedule_result = None
ChatReset(h) ==
    /\ hpc[h] = "reset"
    /\ last_schedule_result' = NoResult
    /\ hpc' = [hpc EXCEPT ![h] = "process"]
    /\ UNCHANGED <<scheduler, inputs, result, scheduled_keys, idx, attempts, pc, probe,
                   rerun, parse, avail, message, chat_result, schedule_data>>

\* chat_api: process_chat(message, [], taken_courses=taken_courses)
ChatProcess(h) ==
    /\ hpc[h] = "process"
    /\ \E r \in {process_chat(message[h])} :
          /\ chat_result' = [chat_result EXCEPT ![h] = r]
          /\ last_schedule_result' = IF r = NoResult THEN last_schedule_result ELSE r
    /\ hpc' = [hpc EXCEPT ![h] = "read"]
    /\ UNCHANGED <<scheduler, inputs, result, scheduled_keys, idx, attempts, pc, probe,
                   rerun, parse, avail, message, schedule_data>>

\* chat_api: schedule_data from last_schedule_result, and the response
ChatRead(h) ==
    /\ hpc[h] = "read"
    /\ schedule_data' =
          [schedule_data EXCEPT ![h] =
              IF last_schedule_result # NoResult /\ last_schedule_result.schedule # <<>>
              THEN format_schedule_for_frontend(last_schedule_result.schedule)
              ELSE NoResult]
    /\ hpc' = [hpc EXCEPT ![h] = "responded"]
    /\ UNCHANGED <<scheduler, inputs, result, scheduled_keys, idx, attempts, pc, probe,
                   rerun, parse, avail, last_schedule_result, message, chat_result>>

NextChat == \E h \in Handlers : ChatReset(h) \/ ChatProcess(h) \/ ChatRead(h)

SpecChat == InitChat /\ [][NextChat]_vars

\* one request in flight, with a message that may name courses, a
\* preference and a subject
ProcessKeys == {K111, K112, K098}

\* the preferences extract_prefs reads from a message without and with
\* "after 11"
ChatPrefs == {NoPrefs, [NoPrefs EXCEPT !.start_after = <<"1","1",":","0","0">>]}

\* what detect_subject returns: None or the code of computer science
ChatSubjects == {<<>>, <<"1","9","8">>}

ProcessMessages ==
    [explicit_courses : ChatLists(ProcessKeys), taken : ChatHistories,
     wants_schedule : BOOLEAN, prefs : ChatPrefs, subject : ChatSubjects]

InitProcess ==
    /\ Constructed
    /\ RunIdle
    /\ ProbeIdle
    /\ RerunIdle
    /\ ParseIdle
    /\ AvailIdle
    /\ pc = "chat"
    /\ last_schedule_result = NoResult
    /\ \E m \in ProcessMessages : message = [h \in Handlers |-> IF h = 1 THEN m ELSE NoMessage]
    /\ hpc = [h \in Handlers |-> IF h = 1 THEN "reset" ELSE "idle"]
    /\ chat_result = [h \in Handlers |-> NoResult]
    /\ schedule_data = [h \in Handlers |-> NoResult]

SpecProcess == InitProcess /\ [][NextChat]_vars

\* ------------------------------------------------------------------------
\* Properties
\* ------------------------------------------------------------------------

\* the course keys (as placed) that have a section in the schedule
PlacedKeys == {schedule[i].course_key : i \in 1..Len(schedule)}

\* C1: no two distinct sections of the schedule conflict under
\* check_conflict, in every state of a run: after each insertion of the
\* placement phase and of the auto-fill phase, not only at the end
C1_NoConflict ==
    \A i, j \in 1..Len(schedule) :
        i # j => ~check_conflict(schedule[i], schedule[j])

\* a requested section and an auto-added one are placed, and the second
\* section of 098:101 was taken because its first one conflicted
C1_Witness ==
    /\ Len(schedule) >= 3
    /\ auto_added # <<>>
    /\ \E i, j \in 1..Len(schedule) :
           schedule[i].index = "11101" /\ schedule[j].index = "09802"

\* C2: when build_schedule has returned, every requested key whose
\* prerequisite text contains another key of the request list is in failed,
\* has a prereq_issues entry and has no section in the schedule
C2_PrereqGating ==
    pc = "done" =>
        \A i \in 1..Len(course_keys) :
            LET k == course_keys[i]
            IN  (\E j \in 1..Len(course_keys) :
                     course_keys[j] # k /\ Contains(course_keys[j], get_prerequisites(k)))
                => /\ k \in Range(failed)
                   /\ \E n \in 1..Len(prereq_issues) : prereq_issues[n].course = k
                   /\ k \notin PlacedKeys

\* the prerequisite text of the key of the current placement step contains
\* the short or the long form of a placed key
PrereqOfCurrentPlaced ==
    /\ pc = "place"
    /\ idx <= Len(course_keys)
    /\ \E text \in {get_prerequisites(course_keys[idx])} :
           \E s \in scheduled_keys :
               Contains(s, text) \/ Contains(<<"0","1",":">> \o s, text)

\* what the prerequisite branch of a placement step does
RejectsCurrent ==
    /\ failed' = Append(failed, course_keys[idx])
    /\ Len(prereq_issues') = Len(prereq_issues) + 1
    /\ SubSeq(prereq_issues', 1, Len(prereq_issues)) = prereq_issues
    /\ prereq_issues'[Len(prereq_issues')].course = course_keys[idx]
    /\ prereq_issues'[Len(prereq_issues')].reason # <<>>
    /\ schedule' = schedule
    /\ scheduled_keys' = scheduled_keys

\* C3: a placement step on a key whose prerequisite text contains the short
\* or the long form of a key placed earlier in the run appends the key to
\* failed and one issue naming it, with a reason, to prereq_issues, adds no
\* section and leaves the sections placed earlier as they were
C3_PrereqConflictStep ==
    [][ PrereqOfCurrentPlaced => RejectsCurrent ]_vars

\* the same step on a key that is not itself in the placed keys: the branch
\* of check_prereq_conflict is reached and does what C3 says
PrereqConflictStepOnNewKey ==
    [][ (PrereqOfCurrentPlaced /\ course_keys[idx] \notin scheduled_keys)
        => RejectsCurrent ]_vars

RECURSIVE SumCredits(_)
\* sum of the credits of a set of catalog courses
SumCredits(ks) ==
    IF ks = {} THEN 0
    ELSE LET k == CHOOSE x \in ks : TRUE
         IN  Courses[k].credits + SumCredits(ks \ {k})

\* the catalog courses that have a section in the schedule
PlacedCourses == {get_course(k) : k \in PlacedKeys} \ {NoCourse}

\* C4: when build_schedule has returned, total_credits is the sum of the
\* credits of the distinct catalog courses with a section in the schedule
C4_CreditsOncePerCourse ==
    pc = "done" => total_credits = SumCredits(PlacedCourses)

\* C5: the auto-fill loop runs at most MAX_ATTEMPTS iterations, an
\* iteration adds at most one course, and build_schedule returns, also
\* when no filler can bring the total to the target
C5_AutoFillTerminates ==
    /\ [](attempts <= MAX_ATTEMPTS)
    /\ [][pc = "fill" =>
             /\ attempts' <= attempts + 1
             /\ Len(schedule') <= Len(schedule) + 1
             /\ Len(auto_added') <= Len(auto_added) + 1]_vars
    /\ (pc = "place") ~> (pc = "done")

\* auto-fill added courses and stopped below a target above MAX_CREDITS
C5_Witness ==
    /\ pc = "done"
    /\ attempts >= 2
    /\ auto_added # <<>>
    /\ target_credits > MAX_CREDITS
    /\ total_credits < target_credits

RECURSIVE DedupFrom(_, _, _)
\* front, followed by the elements of l from position i on that are new
DedupFrom(l, i, front) ==
    IF i > Len(l) THEN front
    ELSE The({ DedupFrom(l, i + 1, nxt) :
               nxt \in {IF l[i] \in Range(front) THEN front
                        ELSE Append(front, l[i])} })

\* a list without the later repetitions of its elements
Dedup(l) == DedupFrom(l, 1, <<>>)

\* build_schedule on the request list without its later repetitions
DedupRun ==
    build_schedule(Dedup(course_keys), prefs, include_closed, target_credits,
                   freshman_safe, auto_fill)

\* C6 as stated: a request list with a repeated key yields the same result
\* (schedule, failed, prereq_issues, auto_added, total_credits) as the list
\* with the later repetitions removed
C6_RepeatedKeySameResult ==
    (pc = "done" /\ Dedup(course_keys) # course_keys) =>
        \A r \in {DedupRun} :
            /\ schedule = r.schedule
            /\ failed = r.failed
            /\ prereq_issues = r.prereq_issues
            /\ auto_added = r.auto_added
            /\ total_credits = r.total_credits

\* C6, amended: a placement step on a key already in the placed keys changes
\* nothing, so a request list with a repeated key yields the same schedule,
\* placed keys, auto_added and total_credits, and the same set of failed
\* keys, as the list with the later repetitions removed
C6_IdempotentPlacement ==
    /\ [][ (pc = "place" /\ idx <= Len(course_keys)
            /\ course_keys[idx] \in scheduled_keys)
           => UNCHANGED <<schedule, failed, prereq_issues, scheduled_keys,
                          total_credits, auto_added>> ]_vars
    /\ []((pc = "done" /\ Dedup(course_keys) # course_keys) =>
             \A r \in {DedupRun} :
                 /\ schedule = r.schedule
                 /\ scheduled_keys = r.scheduled_keys
                 /\ auto_added = r.auto_added
                 /\ total_credits = r.total_credits
                 /\ Range(failed) = Range(r.failed))

\* a run whose request list repeats a key that was placed
C6_Witness ==
    /\ pc = "done"
    /\ Len(course_keys) >= 2
    /\ course_keys[1] = course_keys[2]
    /\ course_keys[1] \in scheduled_keys

\* parsed start and end minute of a meeting
StartOf(m) == time_to_minutes(OrElse(m.start_time_24h, m.start_time))
EndOf(m) == time_to_minutes(OrElse(m.end_time_24h, m.end_time))

\* some meeting of a and some meeting of b are on the same weekday and
\* their minute intervals overlap
Overlap(a, b) ==
    \E i \in 1..Len(a.meetings), j \in 1..Len(b.meetings) :
        /\ \E da \in {normalize_day(a.meetings[i].day)} :
               da # NoDay /\ da = normalize_day(b.meetings[j].day)
        /\ \E sa \in {StartOf(a.meetings[i])}, ea \in {EndOf(a.meetings[i])},
              sb \in {StartOf(b.meetings[j])}, eb \in {EndOf(b.meetings[j])} :
               /\ sa # None /\ ea # None /\ sb # None /\ eb # None
               /\ sa < eb
               /\ sb < ea

\* C7: check_conflict(a, b) is true iff some meeting of a and some meeting
\* of b are on the same normalised weekday with overlapping minute
\* intervals; a section without meetings conflicts with nothing, and
\* check_conflict(a, b) = check_conflict(b, a)
C7_CheckConflict ==
    pc = "returned" =>
        /\ ccResult = Overlap(secA, secB)
        /\ ccResult = check_conflict(secB, secA)
        /\ (secA.meetings = <<>> \/ secB.meetings = <<>>) => ~ccResult

\* a conflict found on the second meeting of a, after a first meeting that
\* ends at the minute the meeting of b starts
C7_Witness ==
    /\ pc = "returned"
    /\ ccResult
    /\ Len(secA.meetings) = 2
    /\ Len(secB.meetings) = 1
    /\ normalize_day(secA.meetings[1].day) = normalize_day(secB.meetings[1].day)
    /\ EndOf(secA.meetings[1]) = StartOf(secB.meetings[1])

\* no section returned for key passes the filters and fits the schedule
NothingFits(key) ==
    \A l \in {get_sections(key, ~include_closed, prefs.exclude_days,
                           prefs.start_after, prefs.end_before)} :
        \A i \in 1..Len(l) : ~can_add_section(l[i], schedule)

\* C8: a placement step on a key that is not in the catalog, or that has no
\* section passing the filters and fitting the schedule, appends the key to
\* failed, adds no section and goes on to the next key; build_schedule
\* returns, and has then gone through the whole request list
C8_FailureIsAValue ==
    /\ [][ (/\ pc = "place"
            /\ idx <= Len(course_keys)
            /\ course_keys[idx] \notin scheduled_keys
            /\ (get_course(course_keys[idx]) = NoCourse \/ NothingFits(course_keys[idx])))
           => /\ failed' = Append(failed, course_keys[idx])
              /\ schedule' = schedule
              /\ scheduled_keys' = scheduled_keys
              /\ idx' = idx + 1
              /\ pc' = "place" ]_vars
    /\ [](pc = "done" => idx = Len(course_keys) + 1)
    /\ (pc = "place") ~> (pc = "done")

\* the unknown key 999:999 failed and the key after it was placed
C8_Witness ==
    /\ pc = "done"
    /\ Len(course_keys) = 2
    /\ course_keys[1] = K999
    /\ K999 \in Range(failed)
    /\ course_keys[2] \in PlacedKeys

\* the weekdays the exclusion list names
ExcludedWeekdays ==
    {normalize_day(prefs.exclude_days[i]) : i \in 1..Len(prefs.exclude_days)} \ {NoDay}

MeetsExcludedDay(sec) ==
    \E j \in 1..Len(sec.meetings) : normalize_day(sec.meetings[j].day) \in ExcludedWeekdays

\* the section lists get_sections returns under the current preferences
SectionLists ==
    {get_sections(k, oo, prefs.exclude_days, prefs.start_after, prefs.end_before) :
        k \in CourseKeys \cup RequestKeys, oo \in BOOLEAN}

\* C9: get_sections returns no section with a meeting on an excluded
\* weekday, whatever the spelling of the exclusion and of the meeting day,
\* and no section of the schedule meets on an excluded weekday
C9_DayExclusion ==
    /\ \A l \in SectionLists : \A i \in 1..Len(l) : ~MeetsExcludedDay(l[i])
    /\ \A i \in 1..Len(schedule) : ~MeetsExcludedDay(schedule[i])

StartBound == IF prefs.start_after # <<>> THEN time_to_minutes(prefs.start_after) ELSE None
EndBound == IF prefs.end_before # <<>> THEN time_to_minutes(prefs.end_before) ELSE None

BreaksTimeBounds(sec) ==
    \E j \in 1..Len(sec.meetings) :
        \/ StartBound # None /\ StartOf(sec.meetings[j]) # None
           /\ StartOf(sec.meetings[j]) < StartBound
        \/ EndBound # None /\ EndOf(sec.meetings[j]) # None
           /\ EndOf(sec.meetings[j]) > EndBound

\* C10: when start_after parses to S, get_sections returns no section with
\* a meeting whose parsed start is below S, and when end_before parses to E
\* none with a meeting whose parsed end is above E, minute 0 included
C10_TimeBounds ==
    \A l \in SectionLists : \A i \in 1..Len(l) : ~BreaksTimeBounds(l[i])


\* build_schedule on the request without the day and time preferences
RelaxedRun ==
    build_schedule(course_keys, NoPrefs, include_closed, target_credits,
                   freshman_safe, auto_fill)

\* C11: when the request under the day and time preferences places nothing,
\* one pass without them is made, so the result returned is empty only
\* when the pass without the preferences places nothing either
C11_RelaxationPass ==
    (pc = "done" /\ course_keys # <<>> /\ prefs # NoPrefs /\ schedule = <<>>)
        => RelaxedRun.schedule = <<>>

IsCopyOfCatalogSection(sec) ==
    \E c \in {get_course(sec.course_key)} :
        /\ c # NoCourse
        /\ \E i \in 1..Len(Catalog[c].sections) :
               /\ DOMAIN sec = DOMAIN Catalog[c].sections[i] \cup {"course_key"}
               /\ \A f \in DOMAIN Catalog[c].sections[i] :
                      sec[f] = Catalog[c].sections[i][f]

Weekdays ==
    { [name |-> "Monday", upper |-> <<"M","O","N","D","A","Y">>, letter |-> <<"M">>],
       [name |-> "Tuesday", upper |-> <<"T","U","E","S","D","A","Y">>, letter |-> <<"T">>],
       [name |-> "Wednesday", upper |-> <<"W","E","D","N","E","S","D","A","Y">>, letter |-> <<"W">>],
       [name |-> "Thursday", upper |-> <<"T","H","U","R","S","D","A","Y">>, letter |-> <<"R">>],
       [name |-> "Friday", upper |-> <<"F","R","I","D","A","Y">>, letter |-> <<"F">>] }

\* the weekday a day string spells: by its one-letter code, by TH, by its
\* full name or by a prefix of two letters or more of its full name, in
\* any case and between any spaces; NoDay for any other string
SpelledWeekday(text) ==
    The({ The({ IF ws = {} THEN NoDay ELSE (CHOOSE w \in ws : TRUE).name :
                ws \in {{ w \in Weekdays :
                             \/ u = w.letter
                             \/ (u = <<"T","H">> /\ w.name = "Thursday")
                             \/ (Len(u) >= 2 /\ StartsWith(w.upper, u)) }} }) :
          u \in {Upper(Strip(text))} })

\* C14: normalize_day maps every one-letter code, TH, every full weekday
\* name and every longer prefix of a full name, in any case, to that
\* weekday; an abbreviation of Thursday maps to Thursday
C14_NormalizeDay ==
    (pc = "day_returned" /\ SpelledWeekday(parseIn.text) # NoDay)
        => dayOut = SpelledWeekday(parseIn.text)

\* a meeting the conflict check has nothing to compare: its day string
\* spells no weekday, or its start or its end does not parse
Unparsable(m) ==
    SpelledWeekday(m.day) = NoDay \/ StartOf(m) = None \/ EndOf(m) = None

\* C15: normalize_day yields null for a meeting whose day string spells no
\* weekday, and a conflict check_conflict reports is between two meetings
\* that both have a weekday and a parsed start and end
C15_UnparsableDropped ==
    pc = "returned" =>
        /\ \A sec \in {secA, secB} : \A i \in 1..Len(sec.meetings) :
               SpelledWeekday(sec.meetings[i].day) = NoDay
                   => normalize_day(sec.meetings[i].day) = NoDay
        /\ ccResult =>
               \E i \in 1..Len(secA.meetings), j \in 1..Len(secB.meetings) :
                   /\ ~Unparsable(secA.meetings[i])
                   /\ ~Unparsable(secB.meetings[j])
                   /\ SpelledWeekday(secA.meetings[i].day)
                          = SpelledWeekday(secB.meetings[j].day)
                   /\ StartOf(secA.meetings[i]) < EndOf(secB.meetings[j])
                   /\ StartOf(secB.meetings[j]) < EndOf(secA.meetings[i])

\* the minute of the day the text h:mm with a marker stands for: the hour
\* moved for PM, for 12 AM and, without a marker, for an hour below 8
ExpectedMinutes(h, m, period) ==
    The({ IF hh >= 0 /\ hh <= 23 /\ m >= 0 /\ m <= 59 THEN hh * 60 + m ELSE None :
          hh \in { IF period = "PM" /\ h # 12 THEN h + 12
                   ELSE IF period = "AM" /\ h = 12 THEN 0
                   ELSE IF period = "" /\ h < 8 THEN h + 12
                   ELSE h } })

\* C16: time_to_minutes on h:mm with an optional marker returns
\* (h+12)*60+m for PM and h other than 12, m for 12 AM, (h+12)*60+m without
\* a marker for h below 8, h*60+m otherwise, and null when the hour that
\* results is not in 0..23 or the minute not in 0..59; a result that is not
\* null is in 0..1439
C16_TimeToMinutes ==
    (pc = "time_returned" /\ parseIn.kind = "time") =>
        /\ timeOut = ExpectedMinutes(parseIn.h, parseIn.m, parseIn.period)
        /\ timeOut # None => (timeOut >= 0 /\ timeOut <= 1439)

\* 07:30 without a marker was read as 19:30
C16_Witness ==
    /\ pc = "time_returned"
    /\ parseIn.text = <<"0","7",":","3","0">>
    /\ timeOut = 1170


\* the course keys a prerequisite text refers to: those it contains
ReferencedKeys(text) == {k \in CourseKeys \cup TakenKeys : Contains(k, text)}

\* C17: get_available_courses_by_prereqs reports a course with open
\* sections and a prerequisite text as available when at least one of the
\* keys the text refers to is in the completed courses
C17_AvailableWhenOneCompleted ==
    pc = "available_returned" =>
        \A c \in CourseKeys :
            (/\ OpenCount(c) > 0
             /\ \E k \in ReferencedKeys(Courses[c].prerequisites) :
                    k \in Range(taken_courses))
            => c \in Range(available)


\* position of a character of a course key in the order of code points:
\* the digits, then ':'
CharRank(c) == IF IsDigit(c) THEN DigitVal(c) ELSE 10

\* a = b or a comes before b in the order of strings
KeyNotAfter(a, b) ==
    \/ a = b
    \/ \E n \in 1..(Len(b)) :
          /\ \A m \in 1..(n - 1) : m <= Len(a) /\ a[m] = b[m]
          /\ (n > Len(a) \/ CharRank(a[n]) < CharRank(b[n]))

\* l is in descending order of score, equal scores in the order of the keys
RankedWithKeyTieBreak(l) ==
    \A i \in 1..Len(l) : \A j \in (i + 1)..Len(l) :
        \/ l[i].score > l[j].score
        \/ l[i].score = l[j].score /\ KeyNotAfter(l[i].key, l[j].key)

\* C18: filler_courses and no_prereq_courses are in descending order of
\* score, and courses of equal score appear in the order of their keys
C18_TieBreakByKey ==
    RankedWithKeyTieBreak(filler_courses) /\ RankedWithKeyTieBreak(no_prereq_courses)

\* each list is in descending order of score (the part of the ranking
\* that does not depend on the order of the catalog)
RankedByScore ==
    \A l \in {filler_courses, no_prereq_courses} :
        \A i \in 1..Len(l) : \A j \in (i + 1)..Len(l) : l[i].score >= l[j].score


\* the schedule_data a response carries when it is derived from result r
DataOf(r) ==
    IF r # NoResult /\ r.schedule # <<>> THEN format_schedule_for_frontend(r.schedule)
    ELSE NoResult

\* C12: with two chat requests handled concurrently, the schedule_data of
\* each response is derived from the schedule built for the message of
\* that request
C12_OwnScheduleData ==
    \A h \in Handlers :
        hpc[h] = "responded" => schedule_data[h] = DataOf(chat_result[h])

\* C13: no course in a schedule built by process_chat has a prerequisite
\* text none of whose referenced courses is in the completed-course
\* history of the request
C13_NoUnmetPrereqPlaced ==
    \A h \in Handlers :
        hpc[h] \in {"read", "responded"} =>
            \A i \in 1..Len(chat_result[h].schedule) :
                \E text \in {get_prerequisites(chat_result[h].schedule[i].course_key)} :
                    \/ text = <<>>
                    \/ \E k \in ReferencedKeys(text) : k \in Range(message[h].taken)


\* the sections of the catalog course of the key being placed, in catalog order
CurrentCatalogSections ==
    IF get_course(course_keys[idx]) = NoCourse THEN <<>>
    ELSE Courses[get_course(course_keys[idx])].sections

\* the indexes of the sections of the current key that pass the filters of
\* get_sections under the arguments of the call
CurrentFiltered ==
    {sec.index : sec \in Range(get_sections(course_keys[idx], ~include_closed,
                                             prefs.exclude_days, prefs.start_after,
                                             prefs.end_before))}

ConflictsWithPlaced(sec) == \E i \in 1..Len(schedule) : check_conflict(sec, schedule[i])

\* C21: a placement step that places a section places the first section,
\* in the order of the catalog, that passes the filters and conflicts with
\* no section placed before: every earlier section of the course is
\* filtered out or conflicts with a placed section
C21_FirstFit ==
    [][ (pc = "place" /\ idx <= Len(course_keys) /\ Len(schedule') = Len(schedule) + 1)
        => \E p \in 1..Len(CurrentCatalogSections) :
              /\ schedule'[Len(schedule')].index = CurrentCatalogSections[p].index
              /\ schedule'[Len(schedule')].course_key = course_keys[idx]
              /\ CurrentCatalogSections[p].index \in CurrentFiltered
              /\ ~ConflictsWithPlaced(schedule'[Len(schedule')])
              /\ \A q \in 1..(p - 1) :
                    \/ CurrentCatalogSections[q].index \notin CurrentFiltered
                    \/ ConflictsWithPlaced(CurrentCatalogSections[q]) ]_vars

\* a requested 198:112 got its second section because its first one is
\* closed, and then a requested 198:111 got its second section because its
\* first one conflicts with the section placed for 198:112
C21_Witness ==
    /\ pc = "done"
    /\ ~include_closed
    /\ Len(schedule) >= 2
    /\ schedule[1].index = "11202"
    /\ schedule[2].index = "11102"


\* the filler list the auto-fill of the current call scans
CurrentFillerList == IF freshman_safe THEN no_prereq_courses ELSE filler_courses

\* some filler of the list is unscheduled, within the maximum, free of a
\* prerequisite conflict and has an open section under the preferences
\* that conflicts with no placed section
EligibleFillerRemains ==
    \E n \in 1..Len(CurrentFillerList) :
        \E filler \in {CurrentFillerList[n]} :
            /\ filler.key \notin scheduled_keys
            /\ total_credits + filler.credits <= MAX_CREDITS
            /\ ~check_prereq_conflict(filler.key, scheduled_keys)
            /\ \E sec \in Range(get_sections(filler.key, TRUE, prefs.exclude_days,
                                               prefs.start_after, prefs.end_before)) :
                   ~ConflictsWithPlaced(sec)

\* C22: when the auto-fill phase has ended (build_schedule has returned
\* after at least one iteration of the auto-fill loop), the total has
\* reached the target, or 80 iterations were used, or no eligible filler
\* remains
C22_AutoFillStop ==
    (pc = "done" /\ attempts > 0)
        => (\/ total_credits >= target_credits
            \/ attempts >= MAX_ATTEMPTS
            \/ ~EligibleFillerRemains)

\* auto-fill added a filler and then ended below the target on a scan
\* that found nothing to add
C22_Witness ==
    /\ pc = "done"
    /\ Len(auto_added) >= 2
    /\ total_credits < target_credits
    /\ attempts = Len(auto_added) + 1
    /\ ~EligibleFillerRemains


\* C23 as stated: whatever the placement phase left, an empty schedule
\* included, if auto-fill is enabled, the total is below the target and an
\* eligible filler has a fitting open section, build_schedule adds a filler
\* (a run that returned without adding one is still in the state the
\* placement phase left)
C23_AutoFillRuns ==
    (pc = "done" /\ auto_fill /\ total_credits < target_credits /\ EligibleFillerRemains)
        => auto_added # <<>>

\* C23 amended: the same when the placement phase placed at least one
\* section; when it placed none, auto-fill does not run and no filler is
\* added
C23_AutoFillRunsWhenPlaced ==
    /\ (pc = "done" /\ auto_fill /\ total_credits < target_credits
           /\ EligibleFillerRemains /\ schedule # <<>>)
          => auto_added # <<>>
    /\ Len(schedule) = Len(auto_added) => auto_added = <<>>

\* one requested section was placed and auto-fill added fillers to it
C23_Witness ==
    /\ pc = "done"
    /\ auto_fill
    /\ Len(schedule) = Len(auto_added) + 1
    /\ auto_added # <<>>


\* C24: an auto-fill iteration that starts with total_credits at most
\* MAX_CREDITS ends with total_credits at most MAX_CREDITS, whatever the
\* target, and the total grows exactly by the credits of the filler added
C24_CreditCeiling ==
    [][ (pc = "fill" /\ total_credits <= MAX_CREDITS)
        => /\ total_credits' <= MAX_CREDITS
           /\ Len(auto_added') = Len(auto_added) + 1
                => total_credits' = total_credits
                       + Courses[auto_added'[Len(auto_added')]].credits ]_vars

\* auto-fill ran for a target above MAX_CREDITS and ended below the target
\* with a filler left that fits the schedule but not the ceiling
C24_Witness ==
    /\ pc = "done"
    /\ auto_added # <<>>
    /\ target_credits > MAX_CREDITS
    /\ \E n \in 1..Len(CurrentFillerList) :
           /\ CurrentFillerList[n].key \notin scheduled_keys
           /\ total_credits + CurrentFillerList[n].credits > MAX_CREDITS
           /\ \E sec \in Range(get_sections(CurrentFillerList[n].key, TRUE, prefs.exclude_days,
                                              prefs.start_after, prefs.end_before)) :
                  ~ConflictsWithPlaced(sec)


\* C25: in a run with freshman_safe=True every key in auto_added is a
\* course whose prerequisite text is empty
C25_FreshmanSafe ==
    freshman_safe =>
        \A n \in 1..Len(auto_added) : Courses[auto_added[n]].prerequisites = <<>>

\* a freshman-safe run added fillers and ended below the target while a
\* course with a prerequisite text, unscheduled and within the maximum,
\* still had a fitting open section
C25_Witness ==
    /\ pc = "done"
    /\ freshman_safe
    /\ auto_added # <<>>
    /\ total_credits < target_credits
    /\ \E n \in 1..Len(filler_courses) :
           /\ filler_courses[n].has_prereq
           /\ filler_courses[n].key \notin scheduled_keys
           /\ total_credits + filler_courses[n].credits <= MAX_CREDITS
           /\ ~check_prereq_conflict(filler_courses[n].key, scheduled_keys)
           /\ \E sec \in Range(get_sections(filler_courses[n].key, TRUE, prefs.exclude_days,
                                              prefs.start_after, prefs.end_before)) :
                  ~ConflictsWithPlaced(sec)


\* C26: once the placement phase is over, every requested key either has
\* a section in the schedule or is in failed, never both, and this stays
\* so during and after auto-fill: no key in failed is auto-added
C26_PlacedFailedPartition ==
    pc \in {"fill", "done"} =>
        /\ \A n \in 1..Len(course_keys) :
              (course_keys[n] \in PlacedKeys) # (course_keys[n] \in Range(failed))
        /\ Range(failed) \cap PlacedKeys = {}
        /\ Range(failed) \cap Range(auto_added) = {}

\* 198:112 failed in the placement phase and auto-fill, free to add
\* courses with prerequisites, then added fillers
C26_Witness ==
    /\ pc = "done"
    /\ ~freshman_safe
    /\ K112 \in Range(failed)
    /\ auto_added # <<>>
    /\ PlacedKeys \ Range(auto_added) # {}


\* the keys of the sections of a schedule
KeysOf(sched) == {sched[i].course_key : i \in 1..Len(sched)}

\* the keys a result lists in failed or in prereq_issues
RejectedKeys(r) ==
    Range(r.failed) \cup {r.prereq_issues[i].course : i \in 1..Len(r.prereq_issues)}

\* C27: in the result process_chat stores as last_schedule_result, no
\* course listed in failed or prereq_issues has a section in the schedule
C27_RejectedNotScheduled ==
    (last_schedule_result # NoResult)
        => RejectedKeys(last_schedule_result) \cap KeysOf(last_schedule_result.schedule) = {}

\* C28: in the result process_chat stores as last_schedule_result,
\* total_credits is the sum of the credits of the courses whose sections
\* are in the schedule
C28_ChatCredits ==
    (last_schedule_result # NoResult)
        => last_schedule_result.total_credits
               = SumCredits({get_course(k) : k \in KeysOf(last_schedule_result.schedule)})


\* ------------------------------------------------------------------------
\* One section per course, open sections only
\* ------------------------------------------------------------------------

\* C29: when build_schedule has returned, no two entries of the schedule
\* are sections of the same catalog course, whichever spelling of its key
\* the request used and whether the request or auto-fill placed them
C29_OneSectionPerCourse ==
    pc = "done" =>
        \A i, j \in 1..Len(schedule) :
            i # j => get_course(schedule[i].course_key) # get_course(schedule[j].course_key)

\* the section of the catalog an entry of the schedule was made from
CatalogSection(entry) ==
    The({ sec \in Range(Courses[get_course(entry.course_key)].sections) :
              sec.index = entry.index })

\* C30: every section of a returned schedule is open, except sections of
\* requested courses in a call with include_closed; the sections of
\* auto-added courses are open in every call
C30_OpenSectionsOnly ==
    pc = "done" =>
        \A i \in 1..Len(schedule) :
            \/ CatalogSection(schedule[i]).is_open
            \/ /\ include_closed
               /\ schedule[i].course_key \notin Range(auto_added)
               /\ schedule[i].course_key \in Range(course_keys)

\* a call with include_closed returned a closed section of a requested
\* course next to the section of an auto-added course that has a closed
\* section too
C30_Witness ==
    /\ pc = "done"
    /\ include_closed
    /\ \E i \in 1..Len(schedule) :
           /\ ~CatalogSection(schedule[i]).is_open
           /\ schedule[i].course_key \in Range(course_keys)
    /\ \E i \in 1..Len(schedule) :
           /\ schedule[i].course_key \in Range(auto_added)
           /\ \E sec \in Range(Courses[get_course(schedule[i].course_key)].sections) :
                  ~sec.is_open

====
